---- MODULE Spec2Model ----
(***************************************************************************)
(* A model of MINDREADER (dkiang/mindreader): the Mode 2 steering session  *)
(* (js/mode2.js) with the probability estimator (js/api.js) and the app    *)
(* controller that resets and starts games, and the Mode 1 round: the      *)
(* token distribution normalizer (js/api.js) and the candidate selector.   *)
(*                                                                         *)
(* Strings are sequences of one-character strings, so that trim, word      *)
(* counting and concatenation are computed as the code computes them.      *)
(* Probabilities on the 0..100 scale are integers; linear probabilities in *)
(* [0,1] are integers per mille.                                           *)
(***************************************************************************)
EXTENDS Integers, Sequences, FiniteSets, TLC

VARIABLES
  gameState,        \* mode2.js: the module-level gameState object
  nudgeDisabled,    \* elements.nudgeInput.disabled and submitNudgeBtn.disabled
  startGameBtnDisabled, \* elements.startGameBtn.disabled
  endScreenShown,   \* elements.endScreen is visible
  currentMode,      \* appState.currentMode
  calls,            \* the suspended async calls, each awaiting one model query
  last,             \* history variable: what the last step did
  gameState1,       \* part_004 (Mode 1): the module-level gameState object
  tokenButtons,     \* the token objects of the buttons in elements.tokenButtons
  pending,          \* the response playRound's query will get, <<>> when none
  round,            \* history variable: how the last playRound ended
  norm,             \* an input of the normalizer and, once applied, its result
  estimate,         \* the responses an estimation gets, and how far it has come
  word,             \* a token for isValidWord and, once applied, its verdict
  ui1,              \* Mode 1 on the page: modal, buttons, message, start controls
  calls1,           \* the suspended async calls of Mode 1, by kind
  last1,            \* history variable: the last step of the Mode 1 game
  select,           \* a distribution for selectTokenOptions and what it returned
  shuffle           \* an array for shuffleArray and what it returned

\* The variables of the Mode 2 session, of the Mode 1 round, and all.
vars2 == <<gameState, nudgeDisabled, startGameBtnDisabled, endScreenShown,
           currentMode, calls, last>>
vars1 == <<gameState1, tokenButtons, pending, round>>
varsG == <<ui1, calls1, last1>>
varsP == <<select, shuffle>>
vars == <<vars2, vars1, norm, estimate, word, varsG, varsP>>

----------------------------------------------------------------------------
(* Bounds of the model.                                                    *)

\* CONFIG.mode2.maxTurns is 10 (config.js:39); the model plays shorter games.
MaxTurns == 2
\* CONFIG.mode1.rounds is 5 (config.js:9); the model plays shorter games.
MaxRounds == 2
\* The number of async calls that may be suspended at once.
MaxInFlight == 2
\* The number of async calls of Mode 1 that may be suspended at once.
MaxInFlight1 == 1

----------------------------------------------------------------------------
(* Strings.                                                                *)

Min(a, b) == IF a <= b THEN a ELSE b
Max(a, b) == IF a >= b THEN a ELSE b

IsSpace(c) == c \in {" ", "\t", "\n"}

RECURSIVE TrimStart(_)
TrimStart(s) ==
  IF s = <<>> THEN <<>>
  ELSE IF IsSpace(Head(s)) THEN TrimStart(Tail(s)) ELSE s

RECURSIVE TrimEnd(_)
TrimEnd(s) ==
  IF s = <<>> THEN <<>>
  ELSE IF IsSpace(s[Len(s)]) THEN TrimEnd(SubSeq(s, 1, Len(s) - 1)) ELSE s

\* String.prototype.trim
Trim(s) == TrimEnd(TrimStart(s))

\* Nudges counted, not their words.
countWordsOne(text) == 1

\* config.js countWords: text.trim().split(/\s+/).filter(w => w.length > 0).length
countWords(text) ==
  LET t == Trim(text)
  IN  Cardinality({i \in 1..Len(t) :
                     /\ ~IsSpace(t[i])
                     /\ (i = 1 \/ IsSpace(t[i - 1]))})

maxNudgeWords == 6

----------------------------------------------------------------------------
(* The model client: makeOpenAIRequest and what it returns.                *)
(*                                                                         *)
(* A response is a record: status is "ok" or the message of the Error      *)
(* makeOpenAIRequest throws (api.js:89-99); hasLogprobs is FALSE when      *)
(* choices[0].logprobs or its content is missing; logprobs are the         *)
(* top_logprobs candidates of the continuation, each with match (the       *)
(* lowercased trimmed token equals or contains the target or one of its    *)
(* variations, api.js:337-339) and p (exp(logprob), per mille); content is *)
(* the message text: num says whether parseFloat reads a number off it,    *)
(* value which.                                                            *)

NoContent == [num |-> FALSE, value |-> 0]
ErrorKinds == {"RATE_LIMIT", "INVALID_API_KEY", "API Error"}

Candidates(P) == [match : BOOLEAN, p : P]

RECURSIVE SeqsUpTo(_, _)
SeqsUpTo(S, n) ==
  IF n = 0 THEN {<<>>}
  ELSE LET shorter == SeqsUpTo(S, n - 1)
       IN  shorter \cup {Append(s, x) : s \in shorter, x \in S}

Failures ==
  {[status |-> e, hasLogprobs |-> FALSE, logprobs |-> <<>>, content |-> NoContent] :
     e \in ErrorKinds}

\* Responses to the continuation query of checkLogprobsForTarget, with up to
\* n candidates of probabilities (per mille) from P.
LogprobResponsesOver(P, n) ==
  Failures \cup
  {[status |-> "ok", hasLogprobs |-> FALSE, logprobs |-> <<>>, content |-> NoContent]}
  \cup
  {[status |-> "ok", hasLogprobs |-> TRUE, logprobs |-> l, content |-> NoContent] :
     l \in SeqsUpTo(Candidates(P), n)}

\* Responses to the numeric query of getLLMProbabilityEstimate, with the
\* numbers read off the text from V.
EstimateResponsesOver(V) ==
  Failures \cup
  {[status |-> "ok", hasLogprobs |-> FALSE, logprobs |-> <<>>, content |-> c] :
     c \in {NoContent} \cup [num : {TRUE}, value : V]}

\* Responses to the analysis query of generateNudgeAnalysis.
AnalysisResponses ==
  Failures \cup
  {[status |-> "ok", hasLogprobs |-> FALSE, logprobs |-> <<>>, content |-> NoContent]}

----------------------------------------------------------------------------
(* The Target Probability Estimator (api.js).  A call of an async function *)
(* ends by returning a value or by throwing: [threw, val, err].            *)

Returns(v) == [threw |-> FALSE, val |-> v, err |-> "none"]
Throws(e) == [threw |-> TRUE, val |-> 0, err |-> e]

RECURSIVE MaxMatching(_)
\* api.js:325-343: the maximum probability among the matching candidates.
MaxMatching(top) ==
  IF top = <<>> THEN 0
  ELSE IF Head(top).match THEN Max(Head(top).p, MaxMatching(Tail(top)))
       ELSE MaxMatching(Tail(top))

\* api.js:299-351.  Every error is caught and answered with 0.
checkLogprobsForTarget(resp) ==
  IF resp.status # "ok" THEN Returns(0)
  ELSE IF ~resp.hasLogprobs THEN Returns(0)
  ELSE Returns((MaxMatching(resp.logprobs) * 200) \div 1000)

\* The number of the response returned as it was parsed.
getLLMProbabilityEstimateUnclamped(resp) ==
  IF resp.status # "ok" THEN Returns(0)
  ELSE IF ~resp.content.num THEN Returns(0)
  ELSE Returns(resp.content.value)

\* api.js:359-390.  Every error is caught and answered with 0.
getLLMProbabilityEstimate(resp) ==
  IF resp.status # "ok" THEN Returns(0)
  ELSE IF ~resp.content.num THEN Returns(0)
  ELSE Returns(Max(0, Min(100, resp.content.value)))

\* The two weights exchanged.
combinedScoreSwapped(logprobScore, llmScore) ==
  Max(0, Min(100, (logprobScore * 4 + llmScore * 6) \div 10))

\* The weighted sum returned as it is.
combinedScoreUnclamped(logprobScore, llmScore) ==
  (logprobScore * 6 + llmScore * 4) \div 10

\* api.js:276-280: 0.6 * logprobScore + 0.4 * llmScore, clamped to [0,100].
\* The scores of the model are multiples of 5, for which the sum is whole.
combinedScore(logprobScore, llmScore) ==
  Max(0, Min(100, (logprobScore * 6 + llmScore * 4) \div 10))

----------------------------------------------------------------------------
(* Mode 2, the steering session (mode2.js).                                *)

StartingPrompts == {<<"S">>}

\* The responses a session meets: logprob scores 0 and 200, estimates 0 (an
\* error, or no number) and 25, so a turn's probability is 0, 10 or 100.
LogprobResponses == LogprobResponsesOver({0, 1000}, 1)
EstimateResponses == EstimateResponsesOver({25})

\* What the player may have typed into the nudge input when submitting.
NudgeInputs ==
  { <<>>, <<" ">>, <<"g", "o">>, <<" ", "g", "o", " ">>,
    <<"a", " ", "b", " ", "c", " ", "d", " ", "e", " ", "f", " ", "g">> }

\* mode2.js:11-25 and 373-387: the state before a game and after reset().
\* hiddenTarget acts only through the match flags of the responses;
\* aiAnalysis is TRUE when it holds a text.
ResetState ==
  [isActive |-> FALSE, currentTurn |-> 0, startingPrompt |-> <<>>,
   currentContext |-> <<>>, currentProbability |-> 0,
   previousProbability |-> 0, probabilityHistory |-> <<>>,
   nudgeHistory |-> <<>>, hasWon |-> FALSE, aiAnalysis |-> FALSE]

\* A started state whose history was not given its initial 0.
StartedStateNoPush(prompt) ==
  [ResetState EXCEPT !.isActive = TRUE, !.startingPrompt = prompt,
                     !.currentContext = prompt]

\* mode2.js:58-96: the state startGame() builds, with the initial 0 pushed.
StartedState(prompt) ==
  [isActive |-> TRUE, currentTurn |-> 0, startingPrompt |-> prompt,
   currentContext |-> prompt, currentProbability |-> 0,
   previousProbability |-> 0, probabilityHistory |-> <<0>>,
   nudgeHistory |-> <<>>, hasWon |-> FALSE, aiAnalysis |-> FALSE]

\* A suspended call: kind "nudge" is handleNudgeSubmit awaiting
\* updateProbability, at the query named by stage, with the logprob score
\* once known; kind "analysis" is generateAndDisplayAnalysis.  context is
\* the context argument updateProbability passed to the estimator
\* (mode2.js:232-235); the target and the arguments of the analysis are left
\* out: what the model client answers does not depend on them here.  History
\* fields: pre holds
\* the session fields as the handler found them, q1Failed whether the
\* continuation query raised an error, stale whether gameState was replaced
\* (reset, startGame) since the call began; pre is kept for the session the
\* call belongs to and cleared with it.
SessionFields(gs) ==
  <<gs.currentTurn, gs.currentContext, gs.nudgeHistory, gs.probabilityHistory>>

\* The estimator called with the context as it was before the nudge.
NudgeCallOldContext(pre, context) ==
  [kind |-> "nudge", stage |-> "logprob", logprobScore |-> 0,
   context |-> pre.currentContext, pre |-> SessionFields(pre),
   q1Failed |-> FALSE, stale |-> FALSE]

NudgeCall(pre, context) ==
  [kind |-> "nudge", stage |-> "logprob", logprobScore |-> 0, context |-> context,
   pre |-> SessionFields(pre), q1Failed |-> FALSE, stale |-> FALSE]

AnalysisCall ==
  [kind |-> "analysis", stage |-> "analysis", logprobScore |-> 0, context |-> <<>>,
   pre |-> SessionFields(ResetState), q1Failed |-> FALSE, stale |-> FALSE]

MarkStale(cs) ==
  [i \in 1..Len(cs) |->
     [cs[i] EXCEPT !.stale = TRUE, !.pre = SessionFields(ResetState)]]

RemoveAt(s, i) == SubSeq(s, 1, i - 1) \o SubSeq(s, i + 1, Len(s))

\* What a step records in the history variable: the handler that ran and,
\* when a suspended call was resumed, which (its place in calls before the
\* step), whether it was stale, whether both its queries had raised an error
\* and whether the estimator threw.
Did(op) ==
  [op |-> op, call |-> 0, stale |-> FALSE, bothFailed |-> FALSE, threw |-> FALSE]

\* The app after construction, as far as Mode 2 goes.
InitSession ==
  /\ gameState = ResetState
  /\ nudgeDisabled = FALSE
  /\ startGameBtnDisabled = FALSE
  /\ endScreenShown = FALSE
  /\ currentMode = "mode1"
  /\ calls = <<>>
  /\ last = Did("init")

\* mode2.js:372-404 reset(), called by resetCurrentMode (part_002:111-117)
\* when Mode 2 is the current mode; Mode 1's reset() touches none of this.
resetCurrentMode ==
  IF currentMode = "mode2"
  THEN /\ gameState' = ResetState
       /\ nudgeDisabled' = FALSE
       /\ calls' = MarkStale(calls)
  ELSE UNCHANGED <<gameState, nudgeDisabled, calls>>

\* part_002:70-106.  A click on the button of the current mode returns at once.
switchMode(mode) ==
  /\ UNCHANGED <<vars1, norm, estimate, word, varsG, varsP>>
  /\ currentMode # mode
  /\ resetCurrentMode
  /\ currentMode' = mode
  /\ endScreenShown' = FALSE
  /\ startGameBtnDisabled' = FALSE
  /\ last' = Did("switchMode")

\* part_002:143-152.  The Play Again button is part of the end screen.
handlePlayAgain ==
  /\ UNCHANGED <<vars1, norm, estimate, word, varsG, varsP>>
  /\ endScreenShown
  /\ endScreenShown' = FALSE
  /\ resetCurrentMode
  /\ startGameBtnDisabled' = FALSE
  /\ UNCHANGED currentMode
  /\ last' = Did("playAgain")

\* ui.js:338-345: a click outside the end screen's content dismisses it.
hideEndScreen ==
  /\ UNCHANGED <<vars1, norm, estimate, word, varsG, varsP>>
  /\ endScreenShown
  /\ endScreenShown' = FALSE
  /\ UNCHANGED <<gameState, nudgeDisabled, startGameBtnDisabled, currentMode, calls>>
  /\ last' = Did("hideEndScreen")

\* mode2.js:58-116.
startGame(prompt) ==
  /\ gameState' = StartedState(prompt)
  /\ nudgeDisabled' = FALSE
  /\ calls' = MarkStale(calls)

\* part_002:123-138.  In Mode 1 the click starts a Mode 1 game, which is
\* no part of this specification.
handleStartGame ==
  /\ UNCHANGED <<vars1, norm, estimate, word, varsG, varsP>>
  /\ ~startGameBtnDisabled
  /\ startGameBtnDisabled' = TRUE
  /\ IF currentMode = "mode2"
     THEN \E prompt \in StartingPrompts : startGame(prompt)
     ELSE UNCHANGED <<gameState, nudgeDisabled, calls>>
  /\ UNCHANGED <<endScreenShown, currentMode>>
  /\ last' = Did("startGame")

\* mode2.js:297-320: endGame() on state gs, with cs the calls still suspended;
\* generateAndDisplayAnalysis issues the analysis query before it returns.
endGame(gs, cs) ==
  /\ gameState' = [gs EXCEPT !.isActive = FALSE]
  /\ nudgeDisabled' = TRUE
  /\ endScreenShown' = TRUE
  /\ calls' = Append(cs, AnalysisCall)

\* The nudge appended with nothing between.
appendNudgeNoSpace(context, nudge) == context \o nudge

\* mode2.js:152: gameState.currentContext += ' ' + nudge
appendNudge(context, nudge) == context \o <<" ">> \o nudge

\* mode2.js:121-166: the click on Submit and the Enter key in the input, up
\* to the first await.  Neither event reaches a disabled control.
handleNudgeSubmit(input) ==
  /\ UNCHANGED <<vars1, norm, estimate, word, varsG, varsP>>
  /\ ~nudgeDisabled
  /\ LET nudge == Trim(input)
     IN  IF ~gameState.isActive \/ nudge = <<>>
            \/ countWords(nudge) > maxNudgeWords
         THEN /\ UNCHANGED <<gameState, nudgeDisabled, calls>>
              /\ last' = Did("nudgeRejected")
         ELSE /\ Len(calls) < MaxInFlight
              /\ LET gs == [gameState EXCEPT
                              !.currentContext = appendNudge(@, nudge),
                              !.nudgeHistory = Append(@, nudge),
                              !.currentTurn = @ + 1,
                              !.previousProbability = gameState.currentProbability]
                 IN  /\ gameState' = gs
                     /\ calls' = Append(calls, NudgeCall(gameState, gs.currentContext))
              /\ nudgeDisabled' = TRUE
              /\ last' = Did("nudgeAccepted")
  /\ UNCHANGED <<startGameBtnDisabled, endScreenShown, currentMode>>

\* mode2.js:213-219; confirmed is the answer to confirm().
handleGiveUp(confirmed) ==
  /\ UNCHANGED <<vars1, norm, estimate, word, varsG, varsP>>
  /\ IF gameState.isActive /\ confirmed
     THEN /\ Len(calls) < MaxInFlight
          /\ endGame(gameState, calls)
          /\ last' = Did("giveUp")
     ELSE /\ UNCHANGED <<gameState, nudgeDisabled, endScreenShown, calls>>
          /\ last' = Did("giveUpIgnored")
  /\ UNCHANGED <<startGameBtnDisabled, currentMode>>

\* api.js:268-291 estimateTargetProbability, resumed with the response to the
\* query the call awaits: the continuation query (stage "logprob"), the
\* numeric query (stage "llm"), or the numeric query repeated by the catch
\* block (stage "fallback").  done says whether the estimator has ended, with
\* result; otherwise stage and logprobScore are those of the call from here on.
estimateTargetProbability(call, resp) ==
  IF call.stage = "logprob"
  THEN LET r == checkLogprobsForTarget(resp)
       IN  [done |-> FALSE, result |-> r,
            stage |-> IF r.threw THEN "fallback" ELSE "llm",
            logprobScore |-> r.val]
  ELSE IF call.stage = "llm"
  THEN LET r == getLLMProbabilityEstimate(resp)
       IN  IF r.threw
           THEN [done |-> FALSE, result |-> r, stage |-> "fallback",
                 logprobScore |-> call.logprobScore]
           ELSE [done |-> TRUE,
                 result |-> Returns(combinedScore(call.logprobScore, r.val)),
                 stage |-> "llm", logprobScore |-> call.logprobScore]
  ELSE [done |-> TRUE, result |-> getLLMProbabilityEstimate(resp),
        stage |-> "fallback", logprobScore |-> call.logprobScore]

\* CONFIG.mode2.feedback (config.js:69-74)
strongIncrease == 15
smallIncrease == 5
smallDecrease == -5
strongDecrease == -15

\* mode2.js:253-275: the feedback provideFeedback shows for gameState gs.
provideFeedback(gs) ==
  LET change == gs.currentProbability - gs.previousProbability
  IN  IF change >= strongIncrease THEN "Strong increase"
      ELSE IF change >= smallIncrease THEN "Small increase"
      ELSE IF change <= strongDecrease THEN "Strong decrease"
      ELSE IF change <= smallDecrease THEN "Small decrease"
      ELSE "Minimal change"

\* mode2.js:237-248 and 168-207: updateProbability and handleNudgeSubmit
\* resumed when the estimator has ended with result; rest are the other
\* suspended calls.  gameState is the object the module variable names now.
\* The input the catch block leaves disabled is enabled again only by the
\* dismissal of the error message (196-200).
resumeNudgeSubmit(result, rest) ==
  IF result.threw
  THEN /\ gameState' = [gameState EXCEPT
                          !.currentTurn = IF @ > 0 THEN @ - 1 ELSE @]
       /\ calls' = rest
       /\ UNCHANGED <<nudgeDisabled, endScreenShown>>
  ELSE LET gs == [gameState EXCEPT
                    !.currentProbability = result.val,
                    !.probabilityHistory = Append(@, result.val)]
       IN  IF gs.currentProbability >= 100
           THEN endGame([gs EXCEPT !.hasWon = TRUE], rest)
           ELSE IF gs.currentTurn >= MaxTurns
           THEN endGame(gs, rest)
           ELSE /\ gameState' = gs
                /\ nudgeDisabled' = FALSE
                /\ calls' = rest
                /\ UNCHANGED endScreenShown

\* The response to the query of suspended call i, a nudge's, arrives.
estimateResponse(i, resp) ==
  /\ UNCHANGED <<vars1, norm, estimate, word, varsG, varsP>>
  /\ calls[i].kind = "nudge"
  /\ resp \in (IF calls[i].stage = "logprob" THEN LogprobResponses
               ELSE EstimateResponses)
  /\ LET call == calls[i]
         e == estimateTargetProbability(call, resp)
     IN  IF ~e.done
         THEN /\ calls' = [calls EXCEPT ![i] =
                             [call EXCEPT
                                !.stage = e.stage,
                                !.logprobScore = e.logprobScore,
                                !.q1Failed = IF call.stage = "logprob"
                                             THEN resp.status # "ok" ELSE @]]
              /\ UNCHANGED <<gameState, nudgeDisabled, endScreenShown>>
              /\ last' = Did("queryDone")
         ELSE /\ resumeNudgeSubmit(e.result, RemoveAt(calls, i))
              /\ last' = [op |-> "nudgeDone", call |-> i, stale |-> call.stale,
                          bothFailed |-> call.q1Failed /\ resp.status # "ok",
                          threw |-> e.result.threw]
  /\ UNCHANGED <<startGameBtnDisabled, currentMode>>

\* mode2.js:325-354 generateAndDisplayAnalysis resumed; generateNudgeAnalysis
\* answers a failed query with a fixed text (api.js:484-488).
analysisResponse(i, resp) ==
  /\ UNCHANGED <<vars1, norm, estimate, word, varsG, varsP>>
  /\ calls[i].kind = "analysis"
  /\ resp \in AnalysisResponses
  /\ gameState' = [gameState EXCEPT !.aiAnalysis = TRUE]
  /\ calls' = RemoveAt(calls, i)
  /\ UNCHANGED <<nudgeDisabled, startGameBtnDisabled, endScreenShown, currentMode>>
  /\ last' = [Did("analysisDone") EXCEPT !.call = i, !.stale = calls[i].stale]

AllResponses == LogprobResponses \cup EstimateResponses \cup AnalysisResponses


----------------------------------------------------------------------------
(* Characters and the word-validity predicate of Mode 1 (part_004).        *)

LowerCase ==
  <<"a", "b", "c", "d", "e", "f", "g", "h", "i", "j", "k", "l", "m",
    "n", "o", "p", "q", "r", "s", "t", "u", "v", "w", "x", "y", "z">>
UpperCase ==
  <<"A", "B", "C", "D", "E", "F", "G", "H", "I", "J", "K", "L", "M",
    "N", "O", "P", "Q", "R", "S", "T", "U", "V", "W", "X", "Y", "Z">>

\* [a-zA-Z], [0-9], [a-zA-Z0-9] and [aeiouAEIOU]
IsLetter(c) == \E k \in 1..Len(LowerCase) : c = LowerCase[k] \/ c = UpperCase[k]
IsDigit(c) == c \in {"0", "1", "2", "3", "4", "5", "6", "7", "8", "9"}
IsAlnum(c) == IsLetter(c) \/ IsDigit(c)
IsVowel(c) == c \in {"a", "e", "i", "o", "u", "A", "E", "I", "O", "U"}

\* String.prototype.toLowerCase
ToLowerCase(s) ==
  [i \in 1..Len(s) |->
     IF \E k \in 1..Len(UpperCase) : s[i] = UpperCase[k]
     THEN LowerCase[CHOOSE k \in 1..Len(UpperCase) : s[i] = UpperCase[k]]
     ELSE s[i]]

\* /^[^a-zA-Z0-9]+$/.test(s), for a string s that is not empty
NoAlnum(s) == \A i \in 1..Len(s) : ~IsAlnum(s[i])

\* part_004:152
validSingleLetterWords ==
  { <<"a">>, <<"i">> }

\* part_004:160-164
validTwoLetterWords ==
  { <<"a","m">>, <<"a","n">>, <<"a","s">>, <<"a","t">>, <<"b","e">>,
    <<"b","y">>, <<"d","o">>, <<"g","o">>, <<"h","e">>, <<"h","i">>,
    <<"i","f">>, <<"i","n">>, <<"i","s">>, <<"i","t">>, <<"m","e">>,
    <<"m","y">>, <<"n","o">>, <<"o","f">>, <<"o","n">>, <<"o","r">>,
    <<"s","o">>, <<"t","o">>, <<"u","p">>, <<"u","s">>, <<"w","e">> }

\* part_004:170-184
validThreeLetterWords ==
  { <<"t","h","e">>, <<"a","n","d">>, <<"f","o","r">>, <<"a","r","e">>,
    <<"b","u","t">>, <<"n","o","t">>, <<"y","o","u">>, <<"a","l","l">>,
    <<"c","a","n">>, <<"h","e","r">>, <<"w","a","s">>, <<"o","n","e">>,
    <<"o","u","r">>, <<"o","u","t">>, <<"d","a","y">>, <<"g","e","t">>,
    <<"h","a","s">>, <<"h","i","m">>, <<"h","i","s">>, <<"h","o","w">>,
    <<"i","t","s">>, <<"m","a","y">>, <<"n","e","w">>, <<"n","o","w">>,
    <<"o","l","d">>, <<"s","e","e">>, <<"t","w","o">>, <<"w","h","o">>,
    <<"b","o","y">>, <<"d","i","d">>, <<"l","e","t">>, <<"p","u","t">>,
    <<"s","a","y">>, <<"s","h","e">>, <<"t","o","o">>, <<"u","s","e">>,
    <<"w","a","y">>, <<"f","a","r">>, <<"f","e","w">>, <<"g","o","t">>,
    <<"h","a","d">>, <<"l","o","t">>, <<"o","f","f">>, <<"o","w","n">>,
    <<"r","u","n">>, <<"s","e","t">>, <<"t","o","p">>, <<"y","e","t">>,
    <<"b","i","g">>, <<"h","o","t">>, <<"s","u","n">>, <<"r","e","d">>,
    <<"d","o","g">>, <<"e","a","t">>, <<"f","u","n">>, <<"j","o","b">>,
    <<"l","a","w">>, <<"a","d","d">>, <<"a","g","e">>, <<"a","g","o">>,
    <<"a","i","r">>, <<"a","r","m">>, <<"a","r","t">>, <<"a","s","k">>,
    <<"b","a","d">>, <<"b","a","g">>, <<"b","a","r">>, <<"b","e","d">>,
    <<"b","i","t">>, <<"b","o","x">>, <<"b","u","s">>, <<"b","u","y">>,
    <<"c","a","r">>, <<"c","a","t">>, <<"c","u","p">>, <<"c","u","t">>,
    <<"d","a","d">>, <<"d","i","e">>, <<"d","u","e">>, <<"e","n","d">>,
    <<"e","y","e">>, <<"f","a","t">>, <<"f","i","t">>, <<"f","l","y">>,
    <<"g","o","d">>, <<"g","u","n">>, <<"g","u","y">>, <<"h","i","t">>,
    <<"i","c","e">>, <<"k","e","y">>, <<"k","i","d">>, <<"l","a","y">>,
    <<"l","e","g">>, <<"l","i","e">>, <<"l","o","w">>, <<"m","a","d">>,
    <<"m","a","n">>, <<"m","a","p">>, <<"m","e","n">>, <<"m","i","x">>,
    <<"m","o","m">>, <<"n","o","r">>, <<"o","i","l">>, <<"p","a","y">>,
    <<"p","e","r">>, <<"p","o","p">>, <<"p","o","t">>, <<"r","i","d">>,
    <<"r","o","w">>, <<"s","a","d">>, <<"s","a","t">>, <<"s","e","a">>,
    <<"s","i","r">>, <<"s","i","t">>, <<"s","i","x">>, <<"s","o","n">>,
    <<"t","a","x">>, <<"t","e","a">>, <<"t","e","n">>, <<"t","i","e">>,
    <<"t","i","p">>, <<"t","r","y">>, <<"w","a","r">>, <<"w","i","n">>,
    <<"y","e","s">>, <<"v","i","a">> }

\* part_004:194-197: the alternatives of the two anchored patterns
suffixOnlyPatterns ==
  { <<"i","n","g">>, <<"e","d">>, <<"t","i","o","n">>, <<"s","i","o","n">>,
    <<"n","e","s","s">>, <<"m","e","n","t">>, <<"i","t","y">>, <<"l","y">>,
    <<"e","r">>, <<"e","s","t">>, <<"f","u","l">>, <<"l","e","s","s">>,
    <<"a","b","l","e">>, <<"i","b","l","e">>, <<"o","u","s">>,
    <<"i","o","u","s">>, <<"i","v","e">>, <<"a","l">>, <<"i","a","l">>,
    <<"e","n","t">>, <<"a","n","t">>, <<"e","n","c","e">>,
    <<"a","n","c","e">>, <<"u","r","e">>, <<"t","u","r","e">>, <<"e","s">>,
    <<"n","t">>, <<"u","n","t">>, <<"i","s","t">>, <<"i","s","m">>,
    <<"s","h","i","p">>, <<"d","o","m">>, <<"h","o","o","d">> }

\* part_004:206-209: the alternatives of the two anchored patterns
prefixOnlyPatterns ==
  { <<"u","n">>, <<"r","e">>, <<"p","r","e">>, <<"d","i","s">>,
    <<"m","i","s">>, <<"n","o","n">>, <<"o","v","e","r">>,
    <<"u","n","d","e","r">>, <<"s","u","b">>, <<"i","n","t","e","r">>,
    <<"f","o","r","e">>, <<"a","n","t","i">>, <<"s","e","m","i">>,
    <<"m","i","d">>, <<"m","i","n","i">>, <<"m","i","c","r","o">>,
    <<"m","e","g","a">>, <<"s","u","p","e","r">>, <<"g","r","o">>,
    <<"h","e","s">>, <<"w","h","e">>, <<"t","h","a">>, <<"t","h","i">>,
    <<"w","h","i">>, <<"s","h","o">>, <<"c","o","u">>, <<"w","o","u">>,
    <<"m","u","s">>, <<"n","e","e">> }

\* part_004:126-225.
\* Every token with a letter in it taken for a word.
isValidWordAnyLetter(token) == \E i \in 1..Len(token) : IsLetter(token[i])

isValidWord(token) ==
  LET trimmed == ToLowerCase(Trim(token))
  IN  IF trimmed = <<>> THEN FALSE
      ELSE IF NoAlnum(trimmed) THEN FALSE
      ELSE IF ~\E i \in 1..Len(trimmed) : IsLetter(trimmed[i]) THEN FALSE
      ELSE IF Len(trimmed) = 1 THEN trimmed \in validSingleLetterWords
      ELSE IF Len(trimmed) = 2 THEN trimmed \in validTwoLetterWords
      ELSE IF Len(trimmed) = 3 THEN trimmed \in validThreeLetterWords
      ELSE IF ~IsAlnum(trimmed[1]) /\ trimmed[1] # "'" THEN FALSE
      ELSE IF trimmed \in suffixOnlyPatterns THEN FALSE
      ELSE IF trimmed \in prefixOnlyPatterns THEN FALSE
      ELSE IF ~\E i \in 1..Len(trimmed) : IsVowel(trimmed[i]) THEN FALSE
      ELSE TRUE

\* part_004:271-272 and 334-335: the test of the fallback filters for a
\* token that is pure punctuation (or blank).
IsPurePunctuation(token) ==
  LET trimmed == Trim(token)
  IN  trimmed = <<>> \/ NoAlnum(trimmed)

----------------------------------------------------------------------------
(* The Token Distribution Normalizer: getNextTokenDistribution (api.js).   *)
(*                                                                         *)
(* A response to its query is a record: status as above; hasLogprobs is    *)
(* FALSE when choices[0].logprobs or its content is missing or empty;      *)
(* token is the token the model chose (logprobs.content[0].token), logprob *)
(* its log-probability when hasTokenLogprob; top is top_logprobs, a list   *)
(* of [token, logprob].  Log-probabilities are integers, in tenths.        *)

\* Math.exp of a log-probability in tenths, per mille: 1000 * e^(l/10).
ExpTable ==
  <<1000, 905, 819, 741, 670, 607, 549, 497, 449, 407, 368, 333, 301,
    273, 247, 223, 202, 183, 165, 150, 135, 122, 111, 100, 91, 82, 74,
    67, 61, 55, 50, 45, 41, 37, 33, 30, 27, 25, 22, 20, 18>>
Exp(l) == IF -l < Len(ExpTable) THEN ExpTable[1 - l] ELSE 0

RECURSIVE InsertByProbability(_, _)
\* x placed behind every entry whose probability is not smaller than x's
InsertByProbability(x, sorted) ==
  IF sorted = <<>> THEN <<x>>
  ELSE IF Head(sorted).probability >= x.probability
       THEN <<Head(sorted)>> \o InsertByProbability(x, Tail(sorted))
       ELSE <<x>> \o sorted

\* The list left in the order of the response.
SortSkipped(s) == s

RECURSIVE SortByProbability(_)
\* api.js:171: Array.prototype.sort by descending probability; it is stable.
SortByProbability(s) ==
  IF s = <<>> THEN <<>>
  ELSE InsertByProbability(s[Len(s)], SortByProbability(SubSeq(s, 1, Len(s) - 1)))

RECURSIVE Deduplicate(_, _, _)
\* api.js:175-197: the first entry of each trimmed text is kept, entries of
\* empty trimmed text are skipped; seen are the keys of seenTokens.
Deduplicate(items, seen, normalizedChosenToken) ==
  IF items = <<>> THEN <<>>
  ELSE LET item == Head(items)
           normalizedToken == Trim(item.token)
       IN  IF normalizedToken = <<>> \/ normalizedToken \in seen
           THEN Deduplicate(Tail(items), seen, normalizedChosenToken)
           ELSE <<[token |-> normalizedToken,
                   originalToken |-> item.token,
                   logprob |-> item.logprob,
                   probability |-> item.probability,
                   rank |-> 0,
                   isChosen |-> normalizedToken = normalizedChosenToken]>>
                \o Deduplicate(Tail(items), seen \cup {normalizedToken},
                               normalizedChosenToken)

\* The ranks left as the deduplication set them.
RerankSkipped(d) == d

\* api.js:200-202 and 217-219: item.rank = index + 1
Rerank(d) == [i \in 1..Len(d) |-> [d[i] EXCEPT !.rank = i]]

\* The distribution returned as deduplicated, the chosen token in it or not.
EnsureChosenSkipped(d, resp) == d

\* api.js:205-220: the chosen token is put in front when no entry is marked.
EnsureChosen(d, resp) ==
  IF \E i \in 1..Len(d) : d[i].isChosen THEN d
  ELSE LET logprob == IF resp.hasTokenLogprob THEN resp.logprob ELSE 0
       IN  Rerank(<<[token |-> Trim(resp.token),
                     originalToken |-> resp.token,
                     logprob |-> logprob,
                     probability |-> Exp(logprob),
                     rank |-> 1,
                     isChosen |-> TRUE]>> \o d)

\* api.js:128-232, from the response to its query on.
getNextTokenDistribution(resp) ==
  IF resp.status # "ok" THEN Throws(resp.status)
  ELSE IF ~resp.hasLogprobs THEN Throws("No logprobs data returned from API")
  ELSE LET tokenDistribution ==
             SortByProbability(
               [i \in 1..Len(resp.top) |->
                  [token |-> resp.top[i].token,
                   logprob |-> resp.top[i].logprob,
                   probability |-> Exp(resp.top[i].logprob)]])
           normalizedChosenToken == Trim(resp.token)
           deduplicatedDistribution ==
             Rerank(Deduplicate(tokenDistribution, {}, normalizedChosenToken))
       IN  Returns([chosenToken |-> normalizedChosenToken,
                    chosenOriginalToken |-> resp.token,
                    distribution |-> EnsureChosen(deduplicatedDistribution, resp)])

----------------------------------------------------------------------------
(* The Candidate Selector: selectTokenOptions (part_004).  Math.random is  *)
(* any of its outcomes: an operator with random picks is the set of the    *)
(* values it may return.                                                   *)

\* CONFIG.mode1.tokenSelection (config.js:16-21)
midMin == 2
midMax == 5
lowMin == 6
lowMax == 15
veryLowMin == 20
veryLowMax == 50

\* part_004:233-235
isTokenSelected(selected, tokenString) ==
  \E i \in 1..Len(selected) : Trim(selected[i].token) = Trim(tokenString)

\* The exchange done as two assignments, the first overwriting a[i].
SwapOverwriting(a, i, j) == [a EXCEPT ![i] = a[j], ![j] = a[j]]

\* part_004:492: [shuffled[i], shuffled[j]] = [shuffled[j], shuffled[i]]
Swap(a, i, j) == [a EXCEPT ![i] = a[j], ![j] = a[i]]

RECURSIVE ShuffleFrom(_, _)
\* part_004:490-493: the loop from index i down (indices from 1 here), with
\* j any of the i places up to i.
ShuffleFrom(a, i) ==
  IF i <= 1 THEN {a}
  ELSE UNION {ShuffleFrom(Swap(a, i, j), i - 1) : j \in 1..i}

\* part_004:488-495
shuffleArray(array) == ShuffleFrom(array, Len(array))

\* No relaxation: nothing but valid words is ever offered.
fallbackTokensNone(distribution, selected) == <<>>

\* The relaxation taking every token not selected yet, punctuation too.
fallbackTokensAny(distribution, selected) ==
  SelectSeq(distribution, LAMBDA t : ~isTokenSelected(selected, t.token))

\* part_004:266-276 and 332-337
fallbackTokens(distribution, selected) ==
  SelectSeq(distribution,
            LAMBDA t : ~isTokenSelected(selected, t.token)
                       /\ ~IsPurePunctuation(t.token))

\* No pick from the bands: the slots are left to the filling loop.
PickSkipped(selected, validDistribution, lo, hi) == {selected}

\* part_004:291-299, 302-310, 313-321: one random pick from the valid
\* tokens of ranks lo..hi that are not selected yet, none when there is none.
PickFromBand(selected, validDistribution, lo, hi) ==
  LET band == SelectSeq(validDistribution,
                        LAMBDA t : t.rank >= lo /\ t.rank <= hi
                                   /\ ~isTokenSelected(selected, t.token))
  IN  IF band = <<>> THEN {selected}
      ELSE {Append(selected, band[k]) : k \in 1..Len(band)}

\* The band picks returned as they are, without the filling loop.
FillSkipped(selected, validDistribution, distribution) == selected

RECURSIVE FillToFour(_, _, _)
\* part_004:324-347: the while loop
FillToFour(selected, validDistribution, distribution) ==
  IF Len(selected) >= 4 THEN selected
  ELSE LET remaining == SelectSeq(validDistribution,
                                  LAMBDA t : ~isTokenSelected(selected, t.token))
           fallback == fallbackTokens(distribution, selected)
       IN  IF remaining # <<>>
           THEN FillToFour(Append(selected, remaining[1]),
                           validDistribution, distribution)
           ELSE IF fallback # <<>>
           THEN FillToFour(Append(selected, fallback[1]),
                           validDistribution, distribution)
           ELSE selected

\* part_004:242-351, before the shuffle: the arrays `selected` may be.
SelectedOptions(distribution, correctToken) ==
  LET found == SelectSeq(distribution, LAMBDA t : t.token = correctToken)
      withCorrect == IF found # <<>> THEN <<found[1]>> ELSE <<>>
      validDistribution ==
        SelectSeq(distribution,
                  LAMBDA t : isValidWord(t.token)
                             /\ ~isTokenSelected(withCorrect, t.token))
  IN  IF Len(validDistribution) < 3
      THEN LET selected == withCorrect \o validDistribution
               fallback == fallbackTokens(distribution, selected)
               needed == 4 - Len(selected)
           IN  {selected \o SubSeq(fallback, 1, Min(needed, Len(fallback)))}
      ELSE LET afterMid == PickFromBand(withCorrect, validDistribution,
                                        midMin, midMax)
               afterLow == UNION {PickFromBand(s, validDistribution,
                                               lowMin, lowMax) : s \in afterMid}
               afterVeryLow ==
                 UNION {PickFromBand(s, validDistribution,
                                     veryLowMin, veryLowMax) : s \in afterLow}
           IN  {FillToFour(s, validDistribution, distribution) :
                  s \in afterVeryLow}

\* part_004:242-351: the arrays selectTokenOptions may return.
selectTokenOptions(distribution, correctToken) ==
  UNION {shuffleArray(selected) :
           selected \in SelectedOptions(distribution, correctToken)}

----------------------------------------------------------------------------
(* The Mode 1 round: playRound (part_004).                                 *)

\* CONFIG.mode1.logprobCount (config.js:10), the top_logprobs asked for
logprobCount == 10

\* The length of the raw lists the normalizer is applied to on its own.
MaxTopLogprobs == 3

Mode1Failures ==
  {[status |-> e, hasLogprobs |-> FALSE, token |-> <<>>,
    hasTokenLogprob |-> FALSE, logprob |-> 0, top |-> <<>>] : e \in ErrorKinds}

NoLogprobsResponse ==
  [status |-> "ok", hasLogprobs |-> FALSE, token |-> <<>>,
   hasTokenLogprob |-> FALSE, logprob |-> 0, top |-> <<>>]

TokenResponse(token, hasTokenLogprob, logprob, top) ==
  [status |-> "ok", hasLogprobs |-> TRUE, token |-> token,
   hasTokenLogprob |-> hasTokenLogprob, logprob |-> logprob, top |-> top]

\* Raw tokens for the normalizer: spacing variants of a word, another word,
\* a blank token; the chosen token may be one the list lacks.
NormTokens ==
  { <<" ", "t", "h", "e">>, <<"t", "h", "e">>, <<" ", "a", "n", "d">>, <<" ">> }
ChosenTokens == NormTokens \cup { <<" ", "b", "u", "t">> }
NormLogprobs == {-1, -2}
\* The chosen token's own log-probability: that of a likeliest entry, or
\* below every entry of the list (a token sampled from outside the top-k).
ChosenLogprobs == {-1, -3}

\* Every list of up to MaxTopLogprobs entries, in any order and with ties,
\* with every chosen token, its log-probability given or not (0 stands for
\* the field being absent).
NormResponses ==
  Mode1Failures \cup {NoLogprobsResponse} \cup
  {TokenResponse(c, l # 0, l, top) :
     c \in ChosenTokens, l \in ChosenLogprobs \cup {0},
     top \in SeqsUpTo([token : NormTokens, logprob : NormLogprobs],
                      MaxTopLogprobs)}

\* Raw tokens for a round, the likeliest first: punctuation, fragments, a
\* number, and words the validity predicate takes.
RoundTokens ==
  << <<".">>,
     <<" ", "k">>,
     <<" ", "t", "h", "e">>,
     <<" ", "a", "n", "d">>,
     <<" ", "i", "n", "g">>,
     <<" ", "d", "o", "o", "r">>,
     <<" ", "a">>,
     <<" ", "g", "o">>,
     <<" ", "4", "2">>,
     <<" ", "q", "u", "i", "e", "t", "l", "y">> >>

\* The entries of RoundTokens at the places in I, with falling log-probability.
TopOf(I) ==
  LET places == SelectSeq([i \in 1..Len(RoundTokens) |-> i], LAMBDA i : i \in I)
  IN  [k \in 1..Len(places) |->
         [token |-> RoundTokens[places[k]], logprob |-> -places[k]]]

\* The responses a round meets: the model chose the likeliest token of a
\* list of up to logprobCount entries (temperature 0), or the query failed.
RoundResponses ==
  Mode1Failures \cup {NoLogprobsResponse} \cup
  {LET top == TopOf(I)
   IN  TokenResponse(top[1].token, TRUE, top[1].logprob, top) :
     I \in {J \in SUBSET (1..Len(RoundTokens)) :
              J # {} /\ Cardinality(J) <= logprobCount}}

\* part_004:11-20 and 461-470: the state before a game and after reset().
ResetState1 ==
  [isActive |-> FALSE, currentRound |-> 0, score |-> 0, currentPrompt |-> <<>>,
   fullText |-> <<>>, tokenDistribution |-> <<>>, correctToken |-> <<>>,
   correctOriginalToken |-> <<>>]

\* part_004:34-52: the state startGame() builds.
StartedState1(prompt) ==
  [isActive |-> TRUE, currentRound |-> 1, score |-> 0, currentPrompt |-> prompt,
   fullText |-> prompt, tokenDistribution |-> <<>>, correctToken |-> <<>>,
   correctOriginalToken |-> <<>>]

\* part_004:68-119: playRound resumed with the response to its query.  With
\* no valid word in the distribution it calls itself, which sends the query
\* again; an error ends the game.
playRound ==
  /\ pending # <<>>
  /\ LET result == getNextTokenDistribution(pending[1])
     IN  IF result.threw
         THEN /\ gameState1' = [gameState1 EXCEPT !.isActive = FALSE]
              /\ pending' = <<>>
              /\ round' = "error"
              /\ UNCHANGED tokenButtons
         ELSE LET distribution == result.val.distribution
                  valid == SelectSeq(distribution, LAMBDA t : isValidWord(t.token))
              IN  IF valid = <<>>
                  THEN /\ gameState1' = [gameState1 EXCEPT
                                           !.tokenDistribution = distribution]
                       /\ pending' \in {<<resp>> : resp \in RoundResponses}
                       /\ round' = IF round = "retry" THEN "retry again"
                                   ELSE "retry"
                       /\ UNCHANGED tokenButtons
                  ELSE LET firstValidToken == valid[1]
                       IN  /\ gameState1' =
                                [gameState1 EXCEPT
                                   !.tokenDistribution = distribution,
                                   !.correctToken = firstValidToken.token,
                                   !.correctOriginalToken =
                                      firstValidToken.originalToken]
                           /\ tokenButtons' \in
                                selectTokenOptions(distribution,
                                                   firstValidToken.token)
                           /\ pending' = <<>>
                           /\ round' = "buttons"
  /\ UNCHANGED <<vars2, norm, estimate, word, varsG, varsP>>

\* The normalizer applied to the input drawn.
normalize ==
  /\ ~norm.done
  /\ norm' = [norm EXCEPT !.done = TRUE,
                          !.result = getNextTokenDistribution(norm.input)]
  /\ UNCHANGED <<vars2, vars1, estimate, word, varsG, varsP>>

----------------------------------------------------------------------------
(* The estimator on its own: one call of estimateTargetProbability, resumed *)
(* with the responses to its queries, the continuation query's first.      *)

\* The number of top_logprobs candidates of a continuation.
MaxCandidates == 2

\* Candidate probabilities 0, 0.025, 0.4, 0.45, 0.5 and 1, for signals 0, 5,
\* 80, 90, 100 and 200.
SignalResponses ==
  LogprobResponsesOver({0, 25, 400, 450, 500, 1000}, MaxCandidates)
\* Numbers the model may answer with, some outside 0..100.
NumberResponses == EstimateResponsesOver({-10, 0, 50, 80, 100, 150})

\* api.js:268-291: the estimator resumed with the response to the query it
\* awaits; responses[2] answers the numeric query, also when it is repeated.
estimateStep ==
  /\ ~estimate.done
  /\ LET resp == IF estimate.stage = "logprob" THEN estimate.responses[1]
                 ELSE estimate.responses[2]
         e == estimateTargetProbability(estimate, resp)
     IN  estimate' = [estimate EXCEPT !.stage = e.stage,
                                      !.logprobScore = e.logprobScore,
                                      !.done = e.done,
                                      !.result = e.result]
  /\ UNCHANGED <<vars2, vars1, norm, word, varsG, varsP>>

----------------------------------------------------------------------------
(* The word-validity predicate on its own: isValidWord (part_004) applied  *)
(* to a token.                                                             *)

\* The longest token drawn from WordChars.
MaxWordLen == 4

\* Letters that spell whitelisted words and listed fragments ("tion",
\* "anti"), an upper-case letter, an apostrophe, punctuation, a digit, a
\* blank.
WordChars == {"t", "i", "o", "n", "a", "T", "'", ".", "4", " "}

\* The tokens isValidWord is applied to: every string over WordChars up to
\* MaxWordLen, and further words and fragments.
WordInputs ==
  SeqsUpTo(WordChars, MaxWordLen) \cup
  { <<"x", "q">>, <<"t", "h", "e">>, <<"i", "n", "g">>,
    <<" ", "q", "u", "i", "e", "t", "l", "y">>, <<"r", "h", "y", "t", "h", "m">>,
    <<"u", "n", "d", "e", "r">>, <<"n", "e", "s", "s">> }

validate ==
  /\ ~word.done
  /\ word' = [word EXCEPT !.done = TRUE, !.result = isValidWord(word.input)]
  /\ UNCHANGED <<vars2, vars1, norm, estimate, varsG, varsP>>

----------------------------------------------------------------------------
(* The Mode 1 game (part_004) under the controller (part_002).  ui1 holds  *)
(* what the page shows of it: intro, the introduction modal with its       *)
(* dismiss handler; buttonsDisabled, the token buttons after a click;      *)
(* feedback, the message with its Continue button ("continue" carries the  *)
(* callback of handleTokenSelection, "error" none); startControls.         *)
(* calls1 counts the suspended calls: playRound awaiting its distribution  *)
(* (late: those of them begun before gameState was last replaced) and      *)
(* endGame awaiting the completion.  A Mode 2 game is no part of this: *)
(* in Mode 2 the page is left by switching back.                           *)

\* The responses a game's rounds meet: a failed query, a response without
\* log-probabilities, a list of punctuation alone, a list of four words, and
\* a list whose likeliest token has no leading blank.
GameResponses ==
  Mode1Failures \cup {NoLogprobsResponse} \cup
  {LET top == TopOf(I)
   IN  TokenResponse(top[1].token, TRUE, top[1].logprob, top) :
     I \in {{1}, {3, 4, 6, 10}}} \cup
  {TokenResponse(<<"a", "n", "d">>, TRUE, -1,
                 << [token |-> <<"a", "n", "d">>, logprob |-> -1],
                    [token |-> <<" ", "t", "h", "e">>, logprob |-> -2] >>)}

Did1(op) == [last1 EXCEPT !.op = op]

\* No game since the page was loaded or reset.  answered counts the clicks
\* on token buttons since gameState was last replaced, answeredInRound
\* those since currentRound last changed; failed tells of a round that
\* ended with an error; late whether the playRound the step resumed had
\* begun before gameState was last replaced.  expected is the prompt gameState was created with
\* followed by the raw correct tokens of the answers since; prompt is the
\* text the latest query of playRound was sent with.
NoGame ==
  [op |-> "init", answered |-> 0, answeredInRound |-> 0, failed |-> FALSE,
   expected |-> <<>>, prompt |-> <<>>, late |-> FALSE]

\* ui.js:568-577 clearGameUI, as far as Mode 1 shows.
clearGameUI(u) == [u EXCEPT !.buttonsDisabled = FALSE, !.feedback = "none"]

\* What stays as it is in every step of the Mode 1 game.
GameFrame ==
  UNCHANGED <<gameState, nudgeDisabled, calls, last, pending, round,
              norm, estimate, word, varsP>>

\* part_004:461-476 reset() and mode2.js:372-404 reset(), called by
\* resetCurrentMode (part_002:111-117): both clear the page and show the
\* start controls; Mode 1's replaces gameState.
resetCurrentMode1 ==
  /\ gameState1' = IF currentMode = "mode1" THEN ResetState1 ELSE gameState1
  /\ tokenButtons' = <<>>
  /\ ui1' = [clearGameUI(ui1) EXCEPT !.startControls = TRUE]
  /\ last1' = IF currentMode = "mode1" THEN [NoGame EXCEPT !.op = "reset"]
              ELSE Did1("reset")
  /\ calls1' = IF currentMode = "mode1" THEN [calls1 EXCEPT !.late = calls1.rounds]
               ELSE calls1

\* part_002:70-106
switchMode1(mode) ==
  /\ GameFrame
  /\ currentMode # mode
  /\ resetCurrentMode1
  /\ currentMode' = mode
  /\ endScreenShown' = FALSE
  /\ startGameBtnDisabled' = FALSE

\* part_002:143-152
handlePlayAgain1 ==
  /\ GameFrame
  /\ endScreenShown
  /\ endScreenShown' = FALSE
  /\ resetCurrentMode1
  /\ startGameBtnDisabled' = FALSE
  /\ UNCHANGED currentMode

\* ui.js:338-345: a click outside the end screen's content dismisses it.
hideEndScreen1 ==
  /\ GameFrame
  /\ endScreenShown
  /\ endScreenShown' = FALSE
  /\ last1' = Did1("hideEndScreen")
  /\ UNCHANGED <<gameState1, tokenButtons, ui1, calls1, currentMode,
                 startGameBtnDisabled>>

\* part_002:123-138 with part_004:32-63: the Start Game button in Mode 1.
handleStartGame1 ==
  /\ GameFrame
  /\ currentMode = "mode1"
  /\ ~startGameBtnDisabled
  /\ startGameBtnDisabled' = TRUE
  /\ gameState1' = StartedState1(<<"S">>)
  /\ tokenButtons' = <<>>
  /\ ui1' = [clearGameUI(ui1) EXCEPT !.startControls = FALSE, !.intro = TRUE]
  /\ last1' = [NoGame EXCEPT !.op = "startGame", !.expected = <<"S">>]
  /\ calls1' = [calls1 EXCEPT !.late = calls1.rounds]
  /\ UNCHANGED <<currentMode, endScreenShown>>

\* ui.js:392-397 with part_004:60-62: the introduction is dismissed and
\* playRound sends the first round's query.
dismissIntro ==
  /\ GameFrame
  /\ ui1.intro
  /\ calls1.rounds + calls1.ends < MaxInFlight1
  /\ ui1' = [ui1 EXCEPT !.intro = FALSE]
  /\ calls1' = [calls1 EXCEPT !.rounds = @ + 1]
  /\ last1' = [last1 EXCEPT !.op = "dismissIntro",
                             !.prompt = gameState1.fullText]
  /\ UNCHANGED <<gameState1, tokenButtons, currentMode, startGameBtnDisabled,
                 endScreenShown>>

\* part_004:68-119: a playRound resumed with the response to its query.
\* gameState is the object the module variable names now.  With no valid
\* word in the distribution it calls itself and the query is sent again.
roundResponse(resp, late) ==
  /\ GameFrame
  /\ IF late THEN calls1.late > 0 ELSE calls1.rounds > calls1.late
  /\ LET result == getNextTokenDistribution(resp)
         ended == [calls1 EXCEPT !.rounds = @ - 1,
                                 !.late = IF late THEN @ - 1 ELSE @]
     IN  IF result.threw
         THEN /\ gameState1' = [gameState1 EXCEPT !.isActive = FALSE]
              /\ ui1' = [ui1 EXCEPT !.feedback = "error", !.startControls = TRUE]
              /\ calls1' = ended
              /\ last1' = [last1 EXCEPT !.op = "roundError", !.failed = TRUE,
                                         !.late = late]
              /\ UNCHANGED tokenButtons
         ELSE LET distribution == result.val.distribution
                  valid == SelectSeq(distribution, LAMBDA t : isValidWord(t.token))
              IN  IF valid = <<>>
                  THEN /\ gameState1' = [gameState1 EXCEPT
                                           !.tokenDistribution = distribution]
                       /\ last1' = [last1 EXCEPT
                                      !.op = "roundRetry",
                                      !.prompt = gameState1.fullText,
                                      !.late = late]
                       /\ UNCHANGED <<tokenButtons, ui1, calls1>>
                  ELSE /\ gameState1' =
                            [gameState1 EXCEPT
                               !.tokenDistribution = distribution,
                               !.correctToken = valid[1].token,
                               !.correctOriginalToken = valid[1].originalToken]
                       /\ tokenButtons' \in
                            selectTokenOptions(distribution, valid[1].token)
                       /\ ui1' = [ui1 EXCEPT !.buttonsDisabled = FALSE]
                       /\ calls1' = ended
                       /\ last1' = [last1 EXCEPT !.op = "roundShown",
                                                  !.late = late]
  /\ UNCHANGED <<currentMode, startGameBtnDisabled, endScreenShown>>

\* part_004:386-397: the correct token appended to the text.
appendToken(fullText, originalToken) ==
  LET needsSpace ==
        /\ Len(fullText) > 0
        /\ ~(originalToken # <<>> /\ originalToken[1] = " ")
        /\ ~(originalToken # <<>>
             /\ originalToken[1] \in {".", ",", "!", "?", ";", ":", ")"})
        /\ fullText[Len(fullText)] # " "
  IN  IF needsSpace THEN fullText \o <<" ">> \o originalToken
      ELSE fullText \o originalToken

\* ui.js:203-207 with part_004:357-399: the click on token button k, up to
\* the feedback with its Continue button.  The token buttons are part of
\* the Mode 1 controls; a disabled button takes no click.
handleTokenSelection(k) ==
  /\ GameFrame
  /\ currentMode = "mode1"
  /\ k \in 1..Len(tokenButtons)
  /\ ~ui1.buttonsDisabled
  /\ LET isCorrect == tokenButtons[k].token = gameState1.correctToken
     IN  gameState1' =
           [gameState1 EXCEPT
              !.score = IF isCorrect THEN @ + 1 ELSE @,
              !.fullText = appendToken(@, gameState1.correctOriginalToken)]
  /\ ui1' = [ui1 EXCEPT !.buttonsDisabled = TRUE, !.feedback = "continue"]
  /\ last1' = [last1 EXCEPT !.op = "answer", !.answered = @ + 1,
                             !.answeredInRound = @ + 1,
                             !.expected = @ \o gameState1.correctOriginalToken]
  /\ UNCHANGED <<tokenButtons, calls1, currentMode, startGameBtnDisabled,
                 endScreenShown>>

\* ui.js:129-134 with part_004:400-412 and 419-425: Continue on the
\* feedback of an answer; the game ends (endGame sends the completion
\* query) or the next round's query is sent.
continueAfterAnswer ==
  /\ GameFrame
  /\ ui1.feedback = "continue"
  /\ calls1.rounds + calls1.ends < MaxInFlight1
  /\ ui1' = [ui1 EXCEPT !.feedback = "none"]
  /\ IF gameState1.currentRound >= MaxRounds
     THEN /\ gameState1' = [gameState1 EXCEPT !.isActive = FALSE]
          /\ calls1' = [calls1 EXCEPT !.ends = @ + 1]
          /\ last1' = Did1("endGame")
     ELSE /\ gameState1' = [gameState1 EXCEPT !.currentRound = @ + 1]
          /\ calls1' = [calls1 EXCEPT !.rounds = @ + 1]
          /\ last1' = [last1 EXCEPT !.op = "nextRound", !.answeredInRound = 0,
                                     !.prompt = gameState1.fullText]
  /\ UNCHANGED <<tokenButtons, currentMode, startGameBtnDisabled, endScreenShown>>

\* ui.js:129-134: Continue on an error message, which has no callback.
dismissError ==
  /\ GameFrame
  /\ ui1.feedback = "error"
  /\ ui1' = [ui1 EXCEPT !.feedback = "none"]
  /\ last1' = Did1("dismissError")
  /\ UNCHANGED <<gameState1, tokenButtons, calls1, currentMode,
                 startGameBtnDisabled, endScreenShown>>

\* part_004:426-453: endGame resumed; the end screen is shown with the
\* completion or, after an error, without it.
completionResponse ==
  /\ GameFrame
  /\ calls1.ends > 0
  /\ calls1' = [calls1 EXCEPT !.ends = @ - 1]
  /\ endScreenShown' = TRUE
  /\ last1' = Did1("endScreen")
  /\ UNCHANGED <<gameState1, tokenButtons, ui1, currentMode, startGameBtnDisabled>>

----------------------------------------------------------------------------
(* The Candidate Selector on its own: selectTokenOptions applied to         *)
(* distributions long enough for every rank band, and shuffleArray applied *)
(* to arrays with repeated elements.                                       *)

\* The length of the lists the selector is applied to.
MaxSelectLen == 21
\* The length of the arrays shuffleArray is applied to.
MaxShuffleLen == 4

\* The ranks that hold a valid word or, if not, a fragment: the ends of
\* the bands, the ranks between the low and the very low band, and the
\* very low ranks.
SelectRanks == {2, 5, 6, 15, 16, 19} \cup (20..MaxSelectLen)

\* A raw list of MaxSelectLen entries of falling log-probability: a word at
\* the ranks in V, a two-letter fragment elsewhere, and at rank 1 a word or
\* a full stop.
SelectTop(V, first) ==
  [k \in 1..MaxSelectLen |->
     [token |-> IF k = 1 THEN first
                ELSE IF k \in V THEN <<" ", "w", "o", "r", "d", LowerCase[k]>>
                ELSE <<" ", "x", LowerCase[k]>>,
      logprob |-> -k]]

\* The distributions the normalizer makes of these lists.
SelectDistributions ==
  {getNextTokenDistribution(
     TokenResponse(first, TRUE, -1, SelectTop(V, first))).val.distribution :
     V \in SUBSET SelectRanks, first \in {<<".">>, <<" ", "t", "h", "e">>}}

\* part_004:488-495 as a call: shuffled is a copy of the argument
\* ([...array]), which keeps its elements.
shuffleArrayCall(array) ==
  {[array |-> array, shuffled |-> shuffled] : shuffled \in shuffleArray(array)}

\* part_004:82-96: selectTokenOptions applied as playRound applies it, with
\* the first valid word as the correct token; selected is the array before
\* the shuffle.
chooseOptions ==
  /\ ~select.done
  /\ LET valid == SelectSeq(select.distribution, LAMBDA t : isValidWord(t.token))
     IN  /\ valid # <<>>
         /\ \E selected \in SelectedOptions(select.distribution, valid[1].token) :
              \E call \in shuffleArrayCall(selected) :
                select' = [select EXCEPT !.done = TRUE,
                                         !.correctToken = valid[1].token,
                                         !.selected = call.array,
                                         !.options = call.shuffled]
  /\ UNCHANGED <<vars2, vars1, norm, estimate, word, varsG, shuffle>>

\* shuffleArray applied to the array drawn.
shuffleStep ==
  /\ ~shuffle.done
  /\ \E call \in shuffleArrayCall(shuffle.input) :
       shuffle' = [shuffle EXCEPT !.done = TRUE, !.array = call.array,
                                  !.shuffled = call.shuffled]
  /\ UNCHANGED <<vars2, vars1, norm, estimate, word, varsG, select>>

----------------------------------------------------------------------------
(* Specifications.                                                         *)

\* No Mode 1 round is being played, and the normalizer is not under test.
IdleRound ==
  /\ gameState1 = ResetState1
  /\ tokenButtons = <<>>
  /\ pending = <<>>
  /\ round = "none"

IdleNorm == norm = [input |-> NoLogprobsResponse, done |-> TRUE, result |-> Throws("none")]

\* No Mode 1 game: the page as the controller's init leaves it.
IdleGame ==
  /\ ui1 = [intro |-> FALSE, buttonsDisabled |-> FALSE, feedback |-> "none",
            startControls |-> TRUE]
  /\ calls1 = [rounds |-> 0, late |-> 0, ends |-> 0]
  /\ last1 = NoGame

\* No selection and no shuffle is under test.
IdleSelect ==
  select = [distribution |-> <<>>, done |-> TRUE, correctToken |-> <<>>,
            selected |-> <<>>, options |-> <<>>]
IdleShuffle ==
  shuffle = [input |-> <<>>, done |-> TRUE, array |-> <<>>, shuffled |-> <<>>]

\* No token is under test.
IdleWord == word = [input |-> <<>>, done |-> TRUE, result |-> FALSE]

\* No estimation is under test.
IdleEstimate ==
  estimate = [responses |-> <<>>, stage |-> "logprob", logprobScore |-> 0,
              done |-> TRUE, result |-> Throws("none")]

\* The app after construction, playing Mode 2 sessions.
Init ==
  /\ InitSession /\ IdleRound /\ IdleNorm /\ IdleEstimate /\ IdleWord /\ IdleGame
  /\ IdleSelect /\ IdleShuffle
Next ==
  \/ \E mode \in {"mode1", "mode2"} : switchMode(mode)
  \/ handleStartGame
  \/ handlePlayAgain
  \/ hideEndScreen
  \/ \E input \in NudgeInputs : handleNudgeSubmit(input)
  \/ \E confirmed \in BOOLEAN : handleGiveUp(confirmed)
  \/ \E i \in 1..Len(calls) : \E resp \in AllResponses : estimateResponse(i, resp)
  \/ \E i \in 1..Len(calls) : \E resp \in AllResponses : analysisResponse(i, resp)
Spec == Init /\ [][Next]_vars

\* A Mode 1 game whose introduction was dismissed: the first round's query
\* is in flight and gets any of the responses.
InitRound ==
  /\ InitSession
  /\ IdleNorm
  /\ IdleEstimate
  /\ IdleWord
  /\ IdleGame
  /\ IdleSelect
  /\ IdleShuffle
  /\ gameState1 = StartedState1(<<"S">>)
  /\ tokenButtons = <<>>
  /\ pending \in {<<resp>> : resp \in RoundResponses}
  /\ round = "start"

NextRound == playRound
SpecRound == InitRound /\ [][NextRound]_vars

\* config.js:11 with part_004:73-76 and 87: at temperature 0 the query
\* repeated with the unchanged fullText is answered as the one before.
playRoundSame ==
  /\ playRound
  /\ pending' \in {pending, <<>>}

\* part_004:73: the suspended playRound is resumed, which ends the await
\* in one of four ways.  Of the steps of playRoundSame these are all.
playRoundResumed ==
  /\ pending # <<>>
  /\ round' \in {"retry", "retry again", "buttons", "error"} \ {round}

\* The round with such a model, each query of which is answered in the end
\* (makeOpenAIRequest resolves or rejects) and playRound resumed.
NextRoundSame == playRoundSame
SpecRoundSame ==
  InitRound /\ [][NextRoundSame]_vars /\ WF_round(playRoundResumed)

\* The normalizer on each of its inputs.
InitNorm ==
  /\ InitSession
  /\ IdleRound
  /\ IdleEstimate
  /\ IdleWord
  /\ IdleGame
  /\ IdleSelect
  /\ IdleShuffle
  /\ norm \in {[input |-> resp, done |-> FALSE, result |-> Throws("none")] :
                 resp \in NormResponses}

NextNorm == normalize
SpecNorm == InitNorm /\ [][NextNorm]_vars

\* The estimator on each pair of responses to its two queries.
InitEstimate ==
  /\ InitSession
  /\ IdleRound
  /\ IdleNorm
  /\ IdleWord
  /\ IdleGame
  /\ IdleSelect
  /\ IdleShuffle
  /\ estimate \in {[responses |-> <<r1, r2>>, stage |-> "logprob",
                     logprobScore |-> 0, done |-> FALSE,
                     result |-> Throws("none")] :
                      r1 \in SignalResponses, r2 \in NumberResponses}

NextEstimate == estimateStep
SpecEstimate == InitEstimate /\ [][NextEstimate]_vars

\* isValidWord on each of its inputs.
InitWord ==
  /\ InitSession
  /\ IdleRound
  /\ IdleNorm
  /\ IdleEstimate
  /\ IdleGame
  /\ IdleSelect
  /\ IdleShuffle
  /\ word \in {[input |-> token, done |-> FALSE, result |-> FALSE] :
                 token \in WordInputs}

NextWord == validate
SpecWord == InitWord /\ [][NextWord]_vars

\* The app after construction, playing Mode 1 games.
InitGame ==
  /\ InitSession
  /\ IdleRound
  /\ IdleNorm
  /\ IdleEstimate
  /\ IdleWord
  /\ IdleGame
  /\ IdleSelect
  /\ IdleShuffle

NextGame ==
  \/ \E mode \in {"mode1", "mode2"} : switchMode1(mode)
  \/ handleStartGame1
  \/ handlePlayAgain1
  \/ hideEndScreen1
  \/ dismissIntro
  \/ \E resp \in GameResponses : \E late \in BOOLEAN : roundResponse(resp, late)
  \/ \E k \in 1..4 : handleTokenSelection(k)
  \/ continueAfterAnswer
  \/ dismissError
  \/ completionResponse
SpecGame == InitGame /\ [][NextGame]_vars

\* selectTokenOptions on each of its distributions, and shuffleArray on
\* each array of up to MaxShuffleLen elements.
InitSelect ==
  /\ InitSession
  /\ IdleRound
  /\ IdleNorm
  /\ IdleEstimate
  /\ IdleWord
  /\ IdleGame
  /\ \/ /\ select \in {[distribution |-> d, done |-> FALSE,
                          correctToken |-> <<>>, selected |-> <<>>,
                          options |-> <<>>] : d \in SelectDistributions}
        /\ IdleShuffle
     \/ /\ IdleSelect
        /\ shuffle \in {[input |-> a, done |-> FALSE, array |-> <<>>,
                          shuffled |-> <<>>] :
                           a \in SeqsUpTo({"a", "b", "c"}, MaxShuffleLen)}

NextSelect ==
  \/ chooseOptions
  \/ shuffleStep
SpecSelect == InitSelect /\ [][NextSelect]_vars

----------------------------------------------------------------------------
(* Claims about the Mode 2 session, checked under Spec.                    *)

\* C1: when the estimation of a nudge fails (both of its queries raise an
\* error, or the estimator throws), then once the handler has finished,
\* currentTurn, currentContext, nudgeHistory and probabilityHistory are what
\* they were just before the nudge was submitted.
C1_RollbackOnFailure ==
  [][(/\ last'.op = "nudgeDone"
      /\ ~last'.stale
      /\ (last'.bothFailed \/ last'.threw))
     => SessionFields(gameState') = calls[last'.call].pre]_vars

\* C2: the response to an estimation that was in flight when the session was
\* reset or replaced changes none of currentProbability, previousProbability,
\* probabilityHistory, hasWon and isActive.
C2_LateResponseDiscarded ==
  [][(last'.op = "nudgeDone" /\ last'.stale)
     => /\ gameState'.currentProbability = gameState.currentProbability
        /\ gameState'.previousProbability = gameState.previousProbability
        /\ gameState'.probabilityHistory = gameState.probabilityHistory
        /\ gameState'.hasWon = gameState.hasWon
        /\ gameState'.isActive = gameState.isActive]_vars

\* C3: at most one model query of the current session is in flight.
C3_OneQueryInFlight ==
  Cardinality({i \in 1..Len(calls) : ~calls[i].stale}) <= 1

\* C4: when both queries of an estimation raise an error, the estimator
\* throws and nothing is appended to probabilityHistory.
C4_TotalFailurePropagates ==
  [][(last'.op = "nudgeDone" /\ last'.bothFailed)
     => /\ last'.threw
        /\ gameState'.probabilityHistory = gameState.probabilityHistory]_vars

\* C11: startGame yields currentTurn = 0, probabilityHistory = <<0>>, an
\* empty nudgeHistory, hasWon = FALSE, isActive = TRUE and currentContext
\* equal to the starting prompt, whatever the state was before.
C11_StartGameState ==
  [][(last'.op = "startGame" /\ currentMode = "mode2")
     => /\ gameState'.currentTurn = 0
        /\ gameState'.probabilityHistory = <<0>>
        /\ gameState'.nudgeHistory = <<>>
        /\ gameState'.hasWon = FALSE
        /\ gameState'.isActive = TRUE
        /\ gameState'.currentContext \in StartingPrompts
        /\ gameState'.currentContext = gameState'.startingPrompt]_vars

\* C11's case: a session started while a call of an earlier session, on
\* which a nudge had been accepted, is still suspended.
C11_Witness ==
  /\ last.op = "startGame"
  /\ currentMode = "mode2"
  /\ gameState.isActive
  /\ \E i \in 1..Len(calls) : calls[i].stale

\* The words of a text: its maximal runs of characters that are not spaces.
WordsIn(text) ==
  Cardinality({i \in 1..Len(text) :
                 ~IsSpace(text[i]) /\ (i = 1 \/ IsSpace(text[i - 1]))})

\* C12: submitting, in a session in progress, a nudge that is empty after
\* trimming or has more than maxNudgeWords words leaves currentTurn,
\* currentContext, nudgeHistory, probabilityHistory, currentProbability and
\* hasWon unchanged and issues no model query.
C12_RejectedNudgeChangesNothing ==
  [][\A input \in NudgeInputs :
       (/\ gameState.isActive
        /\ WordsIn(input) = 0 \/ WordsIn(input) > maxNudgeWords
        /\ handleNudgeSubmit(input))
       => /\ SessionFields(gameState') = SessionFields(gameState)
          /\ gameState'.currentProbability = gameState.currentProbability
          /\ gameState'.hasWon = gameState.hasWon
          /\ calls' = calls]_vars

\* C12's case: a nudge was rejected in a session in progress that had
\* accepted a nudge before.
C12_Witness ==
  /\ last.op = "nudgeRejected"
  /\ gameState.isActive
  /\ gameState.currentTurn >= 1

\* C13: an accepted nudge increases currentTurn by 1, appends the nudge to
\* nudgeHistory and makes currentContext the old context, one space and the
\* nudge; the estimator is called with that updated context; and when the
\* estimation of a nudge of the session succeeds, exactly one probability is
\* appended to probabilityHistory and the other three stay as they are.
C13_AcceptedNudgeEffect ==
  [][/\ last'.op = "nudgeAccepted" =>
          \E input \in NudgeInputs :
            LET nudge == Trim(input)
            IN  /\ gameState'.currentTurn = gameState.currentTurn + 1
                /\ gameState'.nudgeHistory = Append(gameState.nudgeHistory, nudge)
                /\ gameState'.currentContext =
                     gameState.currentContext \o <<" ">> \o nudge
                /\ gameState'.probabilityHistory = gameState.probabilityHistory
                /\ Len(calls') = Len(calls) + 1
                /\ calls'[Len(calls')].context = gameState'.currentContext
     /\ (/\ last'.op = "nudgeDone"
         /\ ~last'.stale /\ ~last'.bothFailed /\ ~last'.threw) =>
          /\ Len(gameState'.probabilityHistory) =
               Len(gameState.probabilityHistory) + 1
          /\ SubSeq(gameState'.probabilityHistory, 1,
                    Len(gameState.probabilityHistory)) =
               gameState.probabilityHistory
          /\ gameState'.currentTurn = gameState.currentTurn
          /\ gameState'.nudgeHistory = gameState.nudgeHistory
          /\ gameState'.currentContext = gameState.currentContext]_vars

\* C13's case: the second nudge of a session was accepted and its estimation
\* succeeded.
C13_Witness ==
  /\ last.op = "nudgeDone"
  /\ ~last.stale /\ ~last.bothFailed /\ ~last.threw
  /\ gameState.currentTurn = 2
  /\ Len(gameState.nudgeHistory) = 2
  /\ Len(gameState.probabilityHistory) = 3

\* C14: when the estimation of a nudge has ended with a probability: if it
\* is >= 100 the session is Won (hasWon, not isActive), also on the last
\* turn; otherwise if currentTurn has reached maxTurns it is Exhausted (not
\* hasWon, not isActive); otherwise isActive stays as it was.  And hasWon is
\* TRUE only if the last entry of probabilityHistory is >= 100.
C14_WonExhaustedInProgress ==
  [][/\ (last'.op = "nudgeDone" /\ ~last'.threw) =>
          LET p == gameState'.currentProbability
          IN  /\ p = gameState'.probabilityHistory[Len(gameState'.probabilityHistory)]
              /\ IF p >= 100
                 THEN gameState'.hasWon /\ ~gameState'.isActive
                 ELSE IF gameState'.currentTurn >= MaxTurns
                 THEN ~gameState'.isActive /\ gameState'.hasWon = gameState.hasWon
                 ELSE /\ gameState'.isActive = gameState.isActive
                      /\ gameState'.hasWon = gameState.hasWon
     /\ gameState'.hasWon =>
          /\ gameState'.probabilityHistory # <<>>
          /\ gameState'.probabilityHistory[Len(gameState'.probabilityHistory)]
               >= 100]_vars

\* C35: in a started session with no nudge of its own being processed,
\* nudgeHistory has currentTurn entries and probabilityHistory one more,
\* currentProbability is the last entry of probabilityHistory, and
\* currentTurn is in 0..maxTurns.
C35_HistoryLengths ==
  (/\ gameState.startingPrompt # <<>>
   /\ \A i \in 1..Len(calls) : calls[i].kind = "nudge" => calls[i].stale)
  => /\ Len(gameState.nudgeHistory) = gameState.currentTurn
     /\ Len(gameState.probabilityHistory) = gameState.currentTurn + 1
     /\ gameState.currentProbability =
          gameState.probabilityHistory[Len(gameState.probabilityHistory)]
     /\ gameState.currentTurn \in 0..MaxTurns

\* The handlers that replace the session: reset() and startGame().
ReplacesSession(op) == op \in {"switchMode", "playAgain", "startGame"}

\* prompt followed by each of nudges in order, each after one space.
RECURSIVE ContextOf(_, _)
ContextOf(prompt, nudges) ==
  IF nudges = <<>> THEN prompt
  ELSE ContextOf(prompt \o <<" ">> \o Head(nudges), Tail(nudges))

IsPrefixOf(s, t) == Len(s) <= Len(t) /\ SubSeq(t, 1, Len(s)) = s

\* C34: after every step currentContext is the starting prompt followed by
\* the entries of nudgeHistory in order, each after a single space, so it
\* holds no nudge the history lacks; and unless the step replaces the
\* session, the context and the history it leaves extend the ones it found.
C34_ContextIsPromptAndNudges ==
  [][/\ gameState'.currentContext =
          ContextOf(gameState'.startingPrompt, gameState'.nudgeHistory)
     /\ ~ReplacesSession(last'.op) =>
          /\ IsPrefixOf(gameState.currentContext, gameState'.currentContext)
          /\ IsPrefixOf(gameState.nudgeHistory, gameState'.nudgeHistory)]_vars

\* C34's case: a session took its second nudge while the estimation of a
\* nudge of an earlier session was still in flight, and that estimation
\* has returned.
C34_Witness ==
  /\ Len(gameState.nudgeHistory) = 2
  /\ gameState.currentContext = <<"S", " ", "g", "o", " ", "g", "o">>
  /\ last.op = "nudgeDone"
  /\ last.stale

\* C15: a confirmed give up in a session in progress ends it (isActive
\* FALSE) with currentTurn, currentContext, nudgeHistory, probabilityHistory
\* and hasWon = FALSE as they were, and the event that follows it, such as
\* the response to an estimation in flight, leaves them so.
C15_GiveUpPreservesHistory ==
  [][/\ last'.op = "giveUp" =>
          /\ ~gameState'.isActive
          /\ SessionFields(gameState') = SessionFields(gameState)
          /\ gameState'.hasWon = FALSE
     /\ (last.op = "giveUp" /\ ~ReplacesSession(last'.op)) =>
          /\ SessionFields(gameState') = SessionFields(gameState)
          /\ gameState'.hasWon = FALSE]_vars

\* A session that has ended: started, and no longer active.
Ended(gs) == ~gs.isActive /\ gs.startingPrompt # <<>>

AnalysisCalls(cs) == Cardinality({i \in 1..Len(cs) : cs[i].kind = "analysis"})

\* C16: once a session has ended, no event but reset and startGame changes
\* currentTurn, currentContext, nudgeHistory, probabilityHistory or hasWon,
\* and endGame does not run again (no further analysis is requested).
C16_EndedIsTerminal ==
  [][(Ended(gameState) /\ ~ReplacesSession(last'.op)) =>
       /\ SessionFields(gameState') = SessionFields(gameState)
       /\ gameState'.hasWon = gameState.hasWon
       /\ AnalysisCalls(calls') <= AnalysisCalls(calls)]_vars

\* C19: when the queries of a nudge's estimation fail, the last one with
\* RATE_LIMIT or INVALID_API_KEY, the error reaches the catch block of
\* handleNudgeSubmit (the estimator throws) and the session fields are
\* those from before the nudge.
C19_RateLimitAndAuthPropagate ==
  [][\A i \in 1..Len(calls) :
       \A resp \in Failures :
         (/\ resp.status \in {"RATE_LIMIT", "INVALID_API_KEY"}
          /\ calls[i].kind = "nudge"
          /\ ~calls[i].stale
          /\ calls[i].stage # "logprob"
          /\ calls[i].q1Failed
          /\ estimateResponse(i, resp))
         => /\ last'.threw
            /\ SessionFields(gameState') = calls[i].pre]_vars

\* The feedback class of a change, as the thresholds are stated.
FeedbackClass(change) ==
  CASE change >= 15 -> "Strong increase"
    [] change >= 5 /\ change < 15 -> "Small increase"
    [] change <= -15 -> "Strong decrease"
    [] change > -15 /\ change <= -5 -> "Small decrease"
    [] change > -5 /\ change < 5 -> "Minimal change"

\* C26: when a nudge's estimation ends and the game goes on, the feedback
\* shown is the class of the last entry of probabilityHistory minus the
\* entry before it: the change provideFeedback computes from
\* currentProbability and previousProbability equals that difference.
C26_FeedbackFromHistory ==
  [][\A i \in 1..Len(calls) : \A resp \in AllResponses :
       (/\ estimateResponse(i, resp)
        /\ last'.op = "nudgeDone" /\ ~last'.threw
        /\ gameState'.currentProbability < 100
        /\ gameState'.currentTurn < MaxTurns)
       => LET h == gameState'.probabilityHistory
          IN  /\ Len(h) >= 2
              /\ gameState'.currentProbability - gameState'.previousProbability
                   = h[Len(h)] - h[Len(h) - 1]
              /\ provideFeedback(gameState')
                   = FeedbackClass(h[Len(h)] - h[Len(h) - 1])]_vars

----------------------------------------------------------------------------
(* Claims about the estimator, checked under SpecEstimate.                 *)

\* The estimator has returned a value on the responses drawn.
EstimateReturned == estimate.done /\ ~estimate.result.threw /\ estimate.responses # <<>>

\* The two signals of the estimation under test.
LogprobSignal == checkLogprobsForTarget(estimate.responses[1]).val
ModelEstimate == getLLMProbabilityEstimate(estimate.responses[2]).val

C18_FallbackToModelEstimate ==
  (/\ EstimateReturned
   /\ estimate.responses[1].status # "ok"
   /\ estimate.responses[2].status = "ok"
   /\ estimate.responses[2].content.num)
  => estimate.result.val = ModelEstimate

\* C29: a response to the numeric query that does not parse as a number
\* counts as an estimate of 0 in the weighted sum and raises no error; a
\* parsed number below 0 counts as 0 and one above 100 as 100, so the
\* estimate is within 0..100.
C29_MalformedEstimateIsZero ==
  (estimate.done /\ estimate.responses # <<>>
     /\ estimate.responses[2].status = "ok") =>
    LET content == estimate.responses[2].content
        counted == IF ~content.num THEN 0
                   ELSE IF content.value < 0 THEN 0
                   ELSE IF content.value > 100 THEN 100
                   ELSE content.value
    IN  /\ ~estimate.result.threw
        /\ 10 * estimate.result.val =
             Max(0, Min(1000, 6 * LogprobSignal + 4 * counted))
        /\ ModelEstimate = counted
        /\ ModelEstimate \in 0..100

\* C29's case: a text that is no number answered the numeric query after
\* a positive logprob signal, and the estimation returned that signal's
\* share.
C29_Witness ==
  /\ estimate.done /\ estimate.responses # <<>>
  /\ estimate.responses[2].status = "ok"
  /\ ~estimate.responses[2].content.num
  /\ LogprobSignal > 0
  /\ estimate.result.val > 0

\* Whether the continuation's response has a matching candidate of a
\* probability of at least p per mille.
MatchingAtLeast(p) ==
  LET resp == estimate.responses[1]
  IN  /\ resp.status = "ok"
      /\ \E k \in 1..Len(resp.logprobs) :
           resp.logprobs[k].match /\ resp.logprobs[k].p >= p

----------------------------------------------------------------------------
(* Claims about the normalizer, checked under SpecNorm.                    *)

\* The normalizer has returned (not thrown) on the input drawn.
NormReturned == norm.done /\ ~norm.result.threw

\* C5: the distribution getNextTokenDistribution returns has no two
\* candidates of equal trimmed text, and the ranks of its candidates, read
\* in list order, are 1, 2, ..., N.
C5_DistinctTextsDenseRanks ==
  NormReturned =>
    LET d == norm.result.val.distribution
    IN  /\ \A i, j \in 1..Len(d) :
             i # j => Trim(d[i].token) # Trim(d[j].token)
        /\ \A i \in 1..Len(d) : d[i].rank = i

\* C5's case: spacing variants were collapsed and the chosen token, which no
\* entry of the list matched, was inserted.
C5_Witness ==
  /\ NormReturned
  /\ LET d == norm.result.val.distribution
         top == norm.input.top
     IN  /\ Len(d) >= 3
         /\ Len(d) <= Len(top)
         /\ d[1].isChosen
         /\ \A i \in 1..Len(top) : Trim(top[i].token) # Trim(norm.input.token)

\* C6: in the distribution getNextTokenDistribution returns exactly one
\* candidate has isChosen = TRUE, and its text is the trimmed chosen token,
\* which is returned as chosenToken.
C6_ExactlyOneChosen ==
  NormReturned =>
    LET r == norm.result.val
        d == r.distribution
    IN  /\ Cardinality({i \in 1..Len(d) : d[i].isChosen}) = 1
        /\ \A i \in 1..Len(d) : d[i].isChosen => d[i].token = r.chosenToken
        /\ r.chosenToken = Trim(norm.input.token)

\* C6's case: the list holds the chosen token under another spacing, and
\* other candidates beside it.
C6_Witness ==
  /\ NormReturned
  /\ LET d == norm.result.val.distribution
     IN  /\ Len(d) >= 2
         /\ \E i \in 1..Len(d) :
              d[i].isChosen /\ d[i].originalToken # norm.input.token

\* C20: without a log-probability payload getNextTokenDistribution throws,
\* and a distribution it returns holds a candidate taken from the top-k
\* list of the response: it never consists of the synthesized chosen token
\* alone.
C20_NoPayloadNoDistribution ==
  /\ (norm.done /\ ~norm.input.hasLogprobs) => norm.result.threw
  /\ NormReturned =>
       LET d == norm.result.val.distribution
           top == norm.input.top
       IN  \E i \in 1..Len(d) :
             \E k \in 1..Len(top) :
               /\ d[i].originalToken = top[k].token
               /\ d[i].logprob = top[k].logprob

\* The places of the raw list whose trimmed text is text, and the first of
\* them among those of the highest log-probability.
SameText(top, text) == {k \in 1..Len(top) : Trim(top[k].token) = text}
BestOf(top, text) ==
  CHOOSE k \in SameText(top, text) :
    \A m \in SameText(top, text) :
      \/ top[m].logprob < top[k].logprob
      \/ top[m].logprob = top[k].logprob /\ m >= k

\* C21: every raw entry of non-empty trimmed text has its text in the
\* returned distribution once, and that candidate carries the highest
\* probability of the raw entries of this trimmed text and the raw form of
\* the entry that has it, the first in the input on a tie.
C21_DedupKeepsHighest ==
  NormReturned =>
    LET d == norm.result.val.distribution
        top == norm.input.top
    IN  \A k \in 1..Len(top) :
          Trim(top[k].token) # <<>> =>
            \E i \in 1..Len(d) :
              LET b == top[BestOf(top, Trim(top[k].token))]
              IN  /\ d[i].token = Trim(top[k].token)
                  /\ d[i].originalToken = b.token
                  /\ d[i].logprob = b.logprob
                  /\ d[i].probability = Exp(b.logprob)

\* C21's case: a spacing variant of lower probability comes first in the
\* raw list and the later, likelier variant is the one kept; and a tie
\* between two variants is in the list as well.
C21_Witness ==
  /\ NormReturned
  /\ LET d == norm.result.val.distribution
         top == norm.input.top
     IN  /\ Len(top) = 3
         /\ Trim(top[1].token) = Trim(top[2].token)
         /\ Trim(top[1].token) = Trim(top[3].token)
         /\ top[1].logprob < top[2].logprob
         /\ top[2].logprob = top[3].logprob
         /\ top[1].token # top[2].token
         /\ top[2].token # top[3].token
         /\ \E i \in 1..Len(d) : d[i].originalToken = top[2].token

\* The list as it stands after deduplication and the first rank assignment
\* (api.js:163-202), before the chosen token is looked for.
Deduplicated(resp) ==
  Rerank(Deduplicate(
    SortByProbability([i \in 1..Len(resp.top) |->
                         [token |-> resp.top[i].token,
                          logprob |-> resp.top[i].logprob,
                          probability |-> Exp(resp.top[i].logprob)]]),
    {}, Trim(resp.token)))

\* C22: when no deduplicated entry matches the chosen token, the returned
\* distribution starts with the chosen token at rank 1 with isChosen, the
\* deduplicated entries follow in their order with their ranks raised by
\* one, and the new entry's probability is exp of its own log-probability,
\* or 0 when the response gives none.
C22_InsertedChosenEntry ==
  (NormReturned /\ \A j \in 1..Len(Deduplicated(norm.input)) :
                     ~Deduplicated(norm.input)[j].isChosen) =>
    LET d == norm.result.val.distribution
        before == Deduplicated(norm.input)
    IN  /\ Len(d) = Len(before) + 1
        /\ d[1].token = Trim(norm.input.token)
        /\ d[1].originalToken = norm.input.token
        /\ d[1].rank = 1
        /\ d[1].isChosen
        /\ \A j \in 1..Len(before) :
             d[j + 1] = [before[j] EXCEPT !.rank = @ + 1]
        /\ d[1].probability = IF norm.input.hasTokenLogprob
                               THEN Exp(norm.input.logprob)
                               ELSE 0

\* C23: the distribution getNextTokenDistribution returns is sorted by
\* non-increasing probability in rank order, whatever the order of the raw
\* list, and also when the chosen token was inserted at rank 1.
C23_SortedByProbability ==
  NormReturned =>
    LET d == norm.result.val.distribution
    IN  \A i \in 1..(Len(d) - 1) : d[i].probability >= d[i + 1].probability

\* C24: no candidate of a distribution getNextTokenDistribution returns has
\* an empty trimmed text, also when the chosen token is only whitespace.
C24_NoEmptyText ==
  NormReturned =>
    LET d == norm.result.val.distribution
    IN  \A i \in 1..Len(d) : Trim(d[i].token) # <<>>

----------------------------------------------------------------------------
(* Claims about the Mode 1 round, checked under SpecRound.                 *)

\* The candidates of the round's distribution that pass isValidWord, and
\* those that are not pure punctuation.
ValidPool ==
  SelectSeq(gameState1.tokenDistribution, LAMBDA t : isValidWord(t.token))
NonPunctuation ==
  SelectSeq(gameState1.tokenDistribution, LAMBDA t : ~IsPurePunctuation(t.token))

\* C7: the options of a round contain the candidate the model chose, and
\* gameState.correctToken is the chosen token, valid word or not.
C7_OptionsHoldChosenToken ==
  round = "buttons" =>
    /\ \E i \in 1..Len(tokenButtons) : tokenButtons[i].isChosen
    /\ \E i \in 1..Len(gameState1.tokenDistribution) :
         /\ gameState1.tokenDistribution[i].isChosen
         /\ gameState1.tokenDistribution[i].token = gameState1.correctToken

\* C8: when at least 4 candidates pass isValidWord, selectTokenOptions
\* returns exactly 4 candidates of pairwise distinct trimmed texts, one of
\* them the correct candidate.
C8_FourDistinctWithCorrect ==
  (round = "buttons" /\ Len(ValidPool) >= 4) =>
    /\ Len(tokenButtons) = 4
    /\ \A i, j \in 1..Len(tokenButtons) :
         i # j => Trim(tokenButtons[i].token) # Trim(tokenButtons[j].token)
    /\ \E i \in 1..Len(tokenButtons) :
         tokenButtons[i].token = gameState1.correctToken

\* C8's case: of a valid pool of 4 or more, a candidate of the low band was
\* picked beside the correct one.
C8_Witness ==
  /\ round = "buttons"
  /\ Len(ValidPool) >= 4
  /\ Len(tokenButtons) = 4
  /\ \E i \in 1..Len(tokenButtons) :
       /\ tokenButtons[i].rank >= lowMin
       /\ tokenButtons[i].token # gameState1.correctToken

\* C9: when the distribution has at least 4 entries that are not pure
\* punctuation, selectTokenOptions returns exactly 4 options, whatever the
\* random picks and whichever path is taken.
C9_FourOptionsOfFourCandidates ==
  (round = "buttons" /\ Len(NonPunctuation) >= 4) => Len(tokenButtons) = 4

\* C9's case: fewer than 3 valid decoys, so that the fallback path filled
\* the options with a candidate that is no valid word.
C9_Witness ==
  /\ round = "buttons"
  /\ Len(NonPunctuation) >= 4
  /\ Len(ValidPool) < 4
  /\ Len(tokenButtons) = 4
  /\ \E i \in 1..Len(tokenButtons) : ~isValidWord(tokenButtons[i].token)

\* C10: a round never presents fewer than 4 options: token buttons are
\* created only of 4 candidates.
C10_NeverFewerThanFour ==
  round = "buttons" => Len(tokenButtons) >= 4

\* C30: an option that fails isValidWord is among the options of a round
\* only if every candidate that passes isValidWord is among them too, and
\* no option other than the correct token is pure punctuation.
C30_RelaxationOrder ==
  round = "buttons" =>
    /\ (\E i \in 1..Len(tokenButtons) : ~isValidWord(tokenButtons[i].token))
         => \A k \in 1..Len(ValidPool) :
              \E i \in 1..Len(tokenButtons) : tokenButtons[i] = ValidPool[k]
    /\ \A i \in 1..Len(tokenButtons) :
         tokenButtons[i].token # gameState1.correctToken
           => LET trimmed == Trim(tokenButtons[i].token)
              IN  trimmed # <<>> /\ \E c \in 1..Len(trimmed) : IsAlnum(trimmed[c])

\* C30's case: the valid pool has given all it has, a fragment fills a
\* slot, and a punctuation mark of the distribution is left out.
C30_Witness ==
  /\ round = "buttons"
  /\ Len(ValidPool) >= 2
  /\ \E i \in 1..Len(tokenButtons) : ~isValidWord(tokenButtons[i].token)
  /\ \E k \in 1..Len(gameState1.tokenDistribution) :
       /\ IsPurePunctuation(gameState1.tokenDistribution[k].token)
       /\ \A i \in 1..Len(tokenButtons) :
            tokenButtons[i] # gameState1.tokenDistribution[k]

\* C37: every invocation of playRound ends: in the end token buttons are
\* created or an error is reported, also when the model answers each retry
\* with the same distribution.
C37_PlayRoundTerminates == <>(round \in {"buttons", "error"})

----------------------------------------------------------------------------
(* Claims about the word-validity predicate, checked under SpecWord.       *)

\* The token under test, trimmed and in lower case.
Tested == ToLowerCase(Trim(word.input))

\* The bare fragments listed in part_004:193-214.
ListedFragment(t) == t \in suffixOnlyPatterns \cup prefixOnlyPatterns

\* C25: isValidWord takes "a" and "the" and rejects "xq", "ing" and "".  Of
\* the trimmed token: with one character it is valid only as "a" or "i",
\* with two or three only when whitelisted, made of non-alphanumeric
\* characters alone never, and with four or more exactly when it is no
\* listed fragment, does not begin with punctuation other than an
\* apostrophe, and holds a vowel.
C25_WordValidity ==
  word.done =>
    /\ word.input = <<"a">> => word.result
    /\ word.input = <<"t", "h", "e">> => word.result
    /\ word.input = <<"x", "q">> => ~word.result
    /\ word.input = <<"i", "n", "g">> => ~word.result
    /\ word.input = <<>> => ~word.result
    /\ Len(Tested) = 1 => (word.result <=> Tested \in {<<"a">>, <<"i">>})
    /\ Len(Tested) = 2 => (word.result <=> Tested \in validTwoLetterWords)
    /\ Len(Tested) = 3 => (word.result <=> Tested \in validThreeLetterWords)
    /\ (\A i \in 1..Len(Tested) : ~IsAlnum(Tested[i])) => ~word.result
    /\ Len(Tested) >= 4 =>
         (word.result <=>
            /\ ~ListedFragment(Tested)
            /\ IsAlnum(Tested[1]) \/ Tested[1] = "'"
            /\ \E i \in 1..Len(Tested) : IsVowel(Tested[i]))

\* C25's case: a listed fragment of four characters, written with an
\* upper-case letter, was rejected.
C25_Witness ==
  /\ word.done
  /\ ~word.result
  /\ Len(Tested) >= 4
  /\ ListedFragment(Tested)
  /\ word.input # Tested

----------------------------------------------------------------------------
(* Claims about the Mode 1 game, checked under SpecGame.                   *)

\* C27: in a Mode 1 game that met no API error the score is at most the
\* number of answers and that at most maxRounds, no round is answered
\* twice, currentRound rises by one from 1 to maxRounds with every earlier
\* round answered once, and the game ends after the answer to round
\* maxRounds.
C27_ExactlyMaxRounds ==
  ~last1.failed =>
    /\ 0 <= gameState1.score
    /\ gameState1.score <= last1.answered
    /\ last1.answered <= MaxRounds
    /\ last1.answeredInRound <= 1
    /\ gameState1.currentRound \in 0..MaxRounds
    /\ last1.op = "nextRound" => last1.answered = gameState1.currentRound - 1
    /\ last1.op = "endGame" =>
         /\ gameState1.currentRound = MaxRounds
         /\ last1.answered = MaxRounds

\* C28: after a round failed with a model error the game is inactive, the
\* start controls are shown and the Start Game button is enabled.
C28_RetryAfterRoundError ==
  last1.op = "roundError" =>
    /\ ~gameState1.isActive
    /\ ui1.startControls
    /\ ~startGameBtnDisabled

\* C33: after every answer, right or wrong, fullText is the starting
\* prompt followed by the raw correct tokens of the rounds answered, and
\* nothing else; the query of round k+1 is sent after the answer to round
\* k with that text as its prompt, which holds the tokens of k rounds.
C33_TextGrowsByRawToken ==
  /\ last1.op = "answer" => gameState1.fullText = last1.expected
  /\ last1.op = "nextRound" =>
       /\ last1.prompt = last1.expected
       /\ last1.answered = gameState1.currentRound - 1

\* C38: the response to a round's query that was in flight when the game
\* was reset or a new one started sets neither tokenDistribution nor
\* correctToken and creates no token buttons; and no step but a start or
\* a reset changes score, currentRound or fullText of a game that is not
\* active.
C38_LateRoundResponseIgnored ==
  [][/\ (last1'.op \in {"roundShown", "roundRetry", "roundError"}
           /\ last1'.late) =>
          /\ gameState1'.tokenDistribution = gameState1.tokenDistribution
          /\ gameState1'.correctToken = gameState1.correctToken
          /\ tokenButtons' = tokenButtons
     /\ (~gameState1.isActive /\ last1'.op \notin {"startGame", "reset"}) =>
          /\ gameState1'.score = gameState1.score
          /\ gameState1'.currentRound = gameState1.currentRound
          /\ gameState1'.fullText = gameState1.fullText]_vars

----------------------------------------------------------------------------
(* Claims about the Candidate Selector, checked under SpecSelect.          *)

\* The valid words of the distribution under test other than the correct
\* token, and whether an entry of a list has its rank in lo..hi.
ValidDecoys ==
  SelectSeq(select.distribution,
            LAMBDA t : isValidWord(t.token) /\ t.token # select.correctToken)
InBand(list, lo, hi) == \E k \in 1..Len(list) : list[k].rank \in lo..hi

\* C31: for each of the bands mid 2..5, low 6..15 and very low 20..50 that
\* holds a valid candidate not selected yet, the options selectTokenOptions
\* returns hold a candidate of a rank in that band, whatever the size of
\* the valid pool.
C31_BandsRepresented ==
  (select.done /\ select.distribution # <<>>) =>
    LET decoys == ValidDecoys
    IN  /\ InBand(decoys, 2, 5) => InBand(select.options, 2, 5)
        /\ InBand(decoys, 6, 15) => InBand(select.options, 6, 15)
        /\ InBand(decoys, 20, 50) => InBand(select.options, 20, 50)

\* C31's case: of a valid pool with more decoys than slots, one of each
\* band was picked, the very low band's from rank 20 or beyond.
C31_Witness ==
  /\ select.done /\ select.distribution # <<>>
  /\ InBand(select.options, 2, 5)
  /\ InBand(select.options, 6, 15)
  /\ InBand(select.options, 20, 50)
  /\ LET decoys == ValidDecoys
     IN  Len(decoys) >= 5 /\ InBand(decoys, 16, 19)

\* The number of places of array a that hold x.
Count(a, x) == Cardinality({i \in 1..Len(a) : a[i] = x})

\* b holds the elements of a, each as often as a does.
IsPermutation(a, b) ==
  /\ Len(a) = Len(b)
  /\ \A i \in 1..Len(a) : Count(b, a[i]) = Count(a, a[i])

\* C32: whatever the random outcome, shuffleArray returns an array of the
\* length of its argument with the same elements as often, and leaves the
\* argument as it was; the options selectTokenOptions returns are the
\* candidates it selected.
C32_ShuffleIsPermutation ==
  /\ (shuffle.done /\ shuffle.input # <<>>) =>
       /\ IsPermutation(shuffle.input, shuffle.shuffled)
       /\ shuffle.array = shuffle.input
  /\ (select.done /\ select.distribution # <<>>) =>
       /\ IsPermutation(select.selected, select.options)
       /\ select.selected \in
            SelectedOptions(select.distribution, select.correctToken)

\* C32's case: an array of four with a repeated element came back in
\* another order.
C32_Witness ==
  /\ shuffle.done
  /\ Len(shuffle.input) = 4
  /\ shuffle.shuffled # shuffle.input
  /\ shuffle.input[1] = shuffle.input[2]
  /\ shuffle.input[3] # shuffle.input[1]
  /\ shuffle.shuffled[1] # shuffle.input[1]

====
